---- MODULE Spec2Model ----
(***************************************************************************)
(* Model of the myCoach agent orchestration core                           *)
(* (backend/app/services/agent): one non-streaming request travelling      *)
(* through the CoachAgent graph                                            *)
(*   retrieve_memory -> route_action -> [check_tools -> call_tool]*        *)
(*     -> execute_action -> update_memory -> END -> AgentResponse.         *)
(*                                                                         *)
(* Payloads are abstracted to the distinctions the code branches on:       *)
(* None / empty / non-empty.  Text produced by the generation backend is   *)
(* abstracted to the shapes the response parser distinguishes.             *)
(***************************************************************************)
EXTENDS Integers, Sequences, FiniteSets, TLC

(***************************************************************************)
(* Bounds of the model (not program constants).                            *)
(***************************************************************************)
\* longest list a handler's get_required_tools may return
MaxDeclared == 2
\* node-run and tool-invocation counters saturate at this value
MaxCount == 4
\* decision points of a trace that are kept
MaxDecisions == 8

(***************************************************************************)
(* Program constants.                                                      *)
(***************************************************************************)
GENERATE_PLAN == "generate_plan"
MODIFY_PLAN == "modify_plan"
ANALYZE_RECORD == "analyze_record"
UPDATE_FROM_RECORDS == "update_from_records"

\* class ActionType
ActionType == {GENERATE_PLAN, MODIFY_PLAN, ANALYZE_RECORD, UPDATE_FROM_RECORDS}

\* ActionRouter._register_default_actions: the keys of ActionRouter._actions
RegisteredActions == {GENERATE_PLAN, MODIFY_PLAN, ANALYZE_RECORD}

\* CoachAgent.__init__: the keys of CoachAgent._tools
RegisteredTools == {"get_training_history", "get_current_plan", "get_recent_records"}

\* a name that is in no registry
UnregisteredTool == "get_weather"

\* names a handler may declare
ToolNames == RegisteredTools \cup {UnregisteredTool}

\* Python None, for string-valued fields
None == "None"

\* error texts
RoutingErrorMsg == "Unable to determine action from state"
NoMessageMsg == "No modification request provided"
NoRecordMsg == "No record data provided"
MacroParseMsg == "Failed to parse macro plan JSON"
DetailParseMsg == "Failed to parse cycle detail JSON"
GenerateFailedMsg == "plan generation failed: AI request failed"
ProviderMsg == "AI request failed"
AttributeErrorMsg == "'NoneType' object has no attribute 'get'"
PayloadTypeMsg == "'int' object has no attribute 'get'"

\* fallback texts
NodeFallbackMsg == "node_fallback_message"
ModifyFallbackMsg == "modify_fallback_message"
AnalyzeFallbackMsg == "analyze_fallback_message"
GeneratedMsg == "plan_generated_message"

Nodes == {"retrieve_memory", "route_action", "check_tools", "call_tool",
          "execute_action", "update_memory"}

Sat(n) == IF n < MaxCount THEN n + 1 ELSE MaxCount

(***************************************************************************)
(* Plan data: a dict (or None) of which the code reads the keys            *)
(* "userProfile" and "weeks".                                              *)
(***************************************************************************)
NonePlan == [isNone |-> TRUE, userProfile |-> "absent", weeks |-> "absent"]
EmptyPlan == [isNone |-> FALSE, userProfile |-> "absent", weeks |-> "absent"]
PlanDataValues ==
    {NonePlan,
     [isNone |-> FALSE, userProfile |-> "absent", weeks |-> "W0"],
     [isNone |-> FALSE, userProfile |-> "planProfile", weeks |-> "W0"]}

\* bool(plan_data)
TruthyPlan(pd) == ~pd.isNone /\ (pd.userProfile # "absent" \/ pd.weeks # "absent")

\* bool(x) for the string-modelled values
Truthy(x) == x \notin {None, "", "{}", "[]"}

\* an empty dict, as a function
EmptyDict == [k \in {} |-> None]

\* d[k] = v on a dict
DictSet(d, k, v) == [x \in (DOMAIN d) \cup {k} |-> IF x = k THEN v ELSE d[x]]

(***************************************************************************)
(* AgentRequest                                                            *)
(***************************************************************************)
Requests ==
    [action : ActionType,
     plan_id : {None, "p1"},
     user_profile : {None, "profile"},
     plan_data : PlanDataValues,
     user_message : {None, "msg"},
     record_data : {None, "{}", "record"}]

\* lists of tool names of length at most n
RECURSIVE SeqsUpTo(_, _)
SeqsUpTo(S, n) ==
    IF n = 0 THEN {<<>>}
    ELSE LET shorter == SeqsUpTo(S, n - 1)
         IN shorter \cup {Append(q, x) : q \in {r \in shorter : Len(r) = n - 1}, x \in S}

DeclaredLists == SeqsUpTo(ToolNames, MaxDeclared)

(***************************************************************************)
(* create_initial_state                                                    *)
(***************************************************************************)
BlankState ==
    [action |-> "",
     plan_id |-> None,
     plan_data |-> EmptyPlan,
     user_profile |-> "{}",
     record_data |-> None,
     user_message |-> "",
     long_term_context |-> "",
     working_context |-> "{}",
     user_preferences |-> "{}",
     pending_tools |-> <<>>,
     tool_results |-> EmptyDict,
     response_message |-> "",
     updated_plan |-> None,
     analysis_result |-> None,
     error |-> None]

create_initial_state(r) ==
    [BlankState EXCEPT
       !.action = r.action,
       !.plan_id = r.plan_id,
       !.plan_data = IF TruthyPlan(r.plan_data) THEN r.plan_data ELSE EmptyPlan,
       \* (request.user_profile or request.plan_data.get("userProfile", {}))
       \*     if request.plan_data else {}
       !.user_profile =
           IF TruthyPlan(r.plan_data)
           THEN IF Truthy(r.user_profile) THEN r.user_profile
                ELSE IF r.plan_data.userProfile # "absent" THEN r.plan_data.userProfile
                ELSE "{}"
           ELSE "{}",
       !.record_data = r.record_data,
       !.user_message = IF Truthy(r.user_message) THEN r.user_message ELSE ""]

(***************************************************************************)
(* ActionRouter.route                                                      *)
(***************************************************************************)
RouteRaises == "RAISE"

\* route with the profile test moved ahead of the message-and-plan test
route_ProfileFirst(s) ==
    IF s.action \in RegisteredActions THEN s.action
    ELSE IF Truthy(s.record_data) THEN ANALYZE_RECORD
    ELSE IF Truthy(s.user_profile) THEN GENERATE_PLAN
    ELSE IF Truthy(s.user_message) /\ TruthyPlan(s.plan_data) THEN MODIFY_PLAN
    ELSE RouteRaises

route(s) ==
    IF s.action \in RegisteredActions THEN s.action
    ELSE IF Truthy(s.record_data) THEN ANALYZE_RECORD
    ELSE IF Truthy(s.user_message) /\ TruthyPlan(s.plan_data) THEN MODIFY_PLAN
    ELSE IF Truthy(s.user_profile) THEN GENERATE_PLAN
    ELSE RouteRaises

(***************************************************************************)
(* CoachAgent._retrieve_memory_node with MemoryManager.get_context and     *)
(* RetrievedContext.format_for_prompt.  lt and pref are the outcomes of    *)
(* the long-term search and of the preference fetch, raised tells whether  *)
(* an exception reached the node's own handler.                            *)
(***************************************************************************)
LongTermOutcomes(s) == IF Truthy(s.plan_id) THEN {"text", "fail"} ELSE {"skip"}
PreferenceOutcomes(s) == IF Truthy(s.plan_id) THEN {"some", "fail"} ELSE {"skip"}

format_for_prompt(lt, pref) ==
    IF lt = "text" /\ pref = "some" THEN "lt+pref"
    ELSE IF lt = "text" THEN "lt"
    ELSE IF pref = "some" THEN "pref"
    ELSE ""

\* the query _retrieve_memory_node searches with: the user message, else a
\* line made of the record, else the action name
QueryOf(s) ==
    IF Truthy(s.user_message) THEN s.user_message
    ELSE IF Truthy(s.record_data) THEN "record_query"
    ELSE s.action

\* the session id of the request
SessionOf == "s1"

\* get_context with one try around the three tiers: a failed search ends it
get_context_OneTry(plan_id, query, session_id, lt, pref, wk) ==
    LET searched == Truthy(plan_id) /\ query # ""
        aborted == searched /\ lt = "fail"
        fetched == Truthy(plan_id) /\ ~aborted
    IN [long_term |-> IF searched /\ lt = "text" THEN "text" ELSE "",
        working |-> IF session_id # "" /\ ~aborted THEN wk ELSE "{}",
        preferences |-> IF fetched /\ pref = "some" THEN "prefs" ELSE "{}",
        searched |-> searched,
        read_working |-> session_id # "" /\ ~aborted,
        fetched |-> fetched]

\* MemoryManager.get_context: the RetrievedContext, and which tiers it asked
get_context(plan_id, query, session_id, lt, pref, wk) ==
    LET searched == Truthy(plan_id) /\ query # ""
        fetched == Truthy(plan_id)
    IN [long_term |-> IF searched /\ lt = "text" THEN "text" ELSE "",
        working |-> IF session_id # "" THEN wk ELSE "{}",
        preferences |-> IF fetched /\ pref = "some" THEN "prefs" ELSE "{}",
        searched |-> searched,
        read_working |-> session_id # "",
        fetched |-> fetched]

RetrieveMemoryNode(s, lt, pref, wk, raised) ==
    IF raised THEN s
    ELSE LET context == get_context(s.plan_id, QueryOf(s), SessionOf, lt, pref, wk)
         IN [s EXCEPT
               !.long_term_context =
                   format_for_prompt(IF context.long_term # "" THEN "text" ELSE "fail",
                                     IF context.preferences # "{}" THEN "some" ELSE "fail"),
               !.working_context = context.working,
               !.user_preferences = context.preferences]

(***************************************************************************)
(* CoachAgent._route_action_node                                           *)
(***************************************************************************)
RouteActionNode(s) ==
    IF route(s) = RouteRaises
    THEN [s EXCEPT !.error = RoutingErrorMsg]
    ELSE [s EXCEPT !.action = route(s)]

(***************************************************************************)
(* Conditional edges                                                       *)
(***************************************************************************)
ToolUsingActions == {GENERATE_PLAN, ANALYZE_RECORD}

\* _should_check_tools without the test of the action kind
should_check_tools_AnyKind(s) ==
    IF Truthy(s.error) THEN "execute_action" ELSE "check_tools"

should_check_tools(s) ==
    IF Truthy(s.error) THEN "execute_action"
    ELSE IF s.action \in ToolUsingActions THEN "check_tools"
    ELSE "execute_action"

has_pending_tools(s) ==
    IF s.pending_tools # <<>> THEN "call_tool" ELSE "execute_action"

(***************************************************************************)
(* CoachAgent._check_tools_node.  required is what the routed handler's    *)
(* get_required_tools returned; raised tells whether it raised instead.    *)
(***************************************************************************)
Remaining(required, results) ==
    SelectSeq(required, LAMBDA t : t \notin DOMAIN results)

CheckToolsNode(s, required, raised) ==
    IF Truthy(s.error) THEN s
    ELSE IF raised THEN [s EXCEPT !.pending_tools = <<>>]
    ELSE [s EXCEPT !.pending_tools = Remaining(required, s.tool_results)]

(***************************************************************************)
(* CoachAgent._call_tool_node.  outcome is what the tool did: returned     *)
(* data, returned None, raised; "notfound" for a name not in _tools.       *)
(***************************************************************************)
ToolOutcomes(name) ==
    IF name \in RegisteredTools THEN {"data", None, "raise"} ELSE {"notfound"}

\* _call_tool_node whose except branch leaves pending_tools as it was
CallToolNode_KeepOnRaise(s, outcome) ==
    IF s.pending_tools = <<>> THEN s
    ELSE LET tool_name == Head(s.pending_tools)
             remaining == Tail(s.pending_tools)
         IN IF outcome \in {"data", None}
            THEN [s EXCEPT !.tool_results = DictSet(s.tool_results, tool_name, outcome),
                           !.pending_tools = remaining]
            ELSE IF outcome = "raise" THEN s
            ELSE [s EXCEPT !.pending_tools = remaining]

CallToolNode(s, outcome) ==
    IF s.pending_tools = <<>> THEN s
    ELSE LET tool_name == Head(s.pending_tools)
             remaining == Tail(s.pending_tools)
         IN IF outcome \in {"data", None}
            THEN [s EXCEPT !.tool_results = DictSet(s.tool_results, tool_name, outcome),
                           !.pending_tools = remaining]
            ELSE [s EXCEPT !.pending_tools = remaining]

(***************************************************************************)
(* Action handlers.  Each returns the new state, the number of             *)
(* chat_completion calls it issued, and whether an exception left          *)
(* execute() (raised, with its text in msg).                               *)
(***************************************************************************)
Handled(s, n) == [state |-> s, calls |-> n, raised |-> FALSE, msg |-> None]
Escaped(s, n, m) == [state |-> s, calls |-> n, raised |-> TRUE, msg |-> m]

\* dict(state); update(**updates) of BaseAction._update_state, for the error
\* keyword alone
update_state_error(s, e) == [s EXCEPT !.error = e]

\* outcomes of one chat_completion call followed by its parser
MacroOutcomes == {"raise", "unparsable", "ok"}
DetailOutcomes == {"raise", "unparsable", "ok", "ok_empty"}
\* for modify: the call raised; plain text; empty text; a plan-update block
\* that merges; a block whose payload is not JSON or holds no weeks
\* ("badupdate"); a block whose payload is JSON but whose weeks are not week
\* objects with a numeric weekNumber, on which _merge_weeks raises ("illtyped")
ModifyOutcomes == {"raise", "text", "empty", "update", "badupdate", "illtyped"}
AnalyzeOutcomes == {"raise", "text", "empty"}

\* GeneratePlanAction.execute that asks for the macro outline a second time
\* when the first request for it failed
GeneratePlanExecute_RetryMacro(s, o1, o2) ==
    IF o1 = "raise" THEN Handled(update_state_error(s, GenerateFailedMsg), 2)
    ELSE IF o1 = "unparsable" THEN Handled(update_state_error(s, MacroParseMsg), 1)
    ELSE IF o2 = "raise" THEN Handled(update_state_error(s, GenerateFailedMsg), 2)
    ELSE IF o2 = "unparsable" THEN Handled(update_state_error(s, DetailParseMsg), 2)
    ELSE Handled([s EXCEPT
                    !.updated_plan = IF o2 = "ok" THEN "W1" ELSE "[]",
                    !.response_message = GeneratedMsg,
                    !.tool_results = DictSet(EmptyDict, "plan_data", "generated_plan")], 2)

\* GeneratePlanAction.execute
GeneratePlanExecute(s, o1, o2) ==
    IF o1 = "raise" THEN Handled(update_state_error(s, GenerateFailedMsg), 1)
    ELSE IF o1 = "unparsable" THEN Handled(update_state_error(s, MacroParseMsg), 1)
    ELSE IF o2 = "raise" THEN Handled(update_state_error(s, GenerateFailedMsg), 2)
    ELSE IF o2 = "unparsable" THEN Handled(update_state_error(s, DetailParseMsg), 2)
    ELSE Handled([s EXCEPT
                    !.updated_plan = IF o2 = "ok" THEN "W1" ELSE "[]",
                    !.response_message = GeneratedMsg,
                    !.tool_results = DictSet(EmptyDict, "plan_data", "generated_plan")], 2)

\* ModifyPlanAction.execute with ResponseParser.parse_plan_update
ModifyPlanExecute(s, o) ==
    IF ~Truthy(s.user_message) THEN Handled(update_state_error(s, NoMessageMsg), 0)
    ELSE IF o = "raise"
         THEN Handled([s EXCEPT !.error = ProviderMsg,
                                !.response_message = ModifyFallbackMsg], 1)
    ELSE IF o = "update"
         THEN Handled([s EXCEPT !.response_message = "text", !.updated_plan = "W1"], 1)
    ELSE IF o = "badupdate"
         THEN Handled([s EXCEPT !.response_message = "text_with_block",
                                !.updated_plan = None], 1)
    ELSE IF o = "illtyped"
         THEN Handled([s EXCEPT !.error = PayloadTypeMsg,
                                !.response_message = ModifyFallbackMsg], 1)
    ELSE IF o = "empty"
         THEN Handled([s EXCEPT !.response_message = "", !.updated_plan = None], 1)
    ELSE Handled([s EXCEPT !.response_message = "text", !.updated_plan = None], 1)

\* AnalyzeRecordAction.execute with ResponseParser.parse_analysis
AnalyzeRecordExecute(s, o) ==
    \* record_data.get("type") in the opening log call, on None
    IF s.record_data = None THEN Escaped(s, 0, AttributeErrorMsg)
    ELSE IF ~Truthy(s.record_data) THEN Handled(update_state_error(s, NoRecordMsg), 0)
    ELSE IF o = "raise"
         THEN Handled([s EXCEPT !.error = ProviderMsg,
                                !.analysis_result = AnalyzeFallbackMsg], 1)
    ELSE IF o = "empty"
         THEN Handled([s EXCEPT !.analysis_result = "", !.response_message = ""], 1)
    ELSE Handled([s EXCEPT !.analysis_result = "text", !.response_message = "text"], 1)

\* ActionRouter.execute
RouterExecute(s, o1, o2) ==
    LET action_type == route(s)
    IN IF action_type = RouteRaises THEN Escaped(s, 0, RoutingErrorMsg)
       ELSE IF action_type = GENERATE_PLAN THEN GeneratePlanExecute(s, o1, o2)
       ELSE IF action_type = MODIFY_PLAN THEN ModifyPlanExecute(s, o1)
       ELSE AnalyzeRecordExecute(s, o1)

\* the outcomes the routed handler can meet
FirstOutcomes(s) ==
    IF route(s) = GENERATE_PLAN THEN MacroOutcomes
    ELSE IF route(s) = MODIFY_PLAN THEN ModifyOutcomes
    ELSE AnalyzeOutcomes

SecondOutcomes(s, o1) ==
    IF route(s) = GENERATE_PLAN /\ o1 = "ok" THEN DetailOutcomes ELSE {None}

(***************************************************************************)
(* CoachAgent._execute_action_node: the new state, the chat_completion     *)
(* calls issued and the number of handlers invoked.                        *)
(***************************************************************************)
\* the try/except around router.execute
TryRouterExecute(s, o1, o2) ==
    LET r == RouterExecute(s, o1, o2)
    IN IF r.raised
       THEN [state |-> [s EXCEPT !.error = r.msg,
                                 !.response_message = NodeFallbackMsg],
             calls |-> r.calls, handlers |-> 1]
       ELSE [state |-> r.state, calls |-> r.calls, handlers |-> 1]

\* _execute_action_node without its opening test of state["error"]
ExecuteActionNode_NoErrorGuard(s, o1, o2) == TryRouterExecute(s, o1, o2)

ExecuteActionNode(s, o1, o2) ==
    IF Truthy(s.error) THEN [state |-> s, calls |-> 0, handlers |-> 0]
    ELSE TryRouterExecute(s, o1, o2)

(***************************************************************************)
(* CoachAgent._update_memory_node with MemoryManager.store_conversation,   *)
(* store_plan_context and store_analysis.  convFail, planFail and anaFail  *)
(* tell whether the long-term write of that call raises.  stored is the    *)
(* set of long-term categories written, messages the number of messages    *)
(* added to the session's working memory.                                  *)
(***************************************************************************)
\* what the node's except branch leaves of the state it was working on
\* an except branch that records the failure in the state
MemoryUpdateFailed_SetsError(s) == [s EXCEPT !.error = "Memory update failed"]

MemoryUpdateFailed(s) == s

\* the analyze branch written against the key "analysis", which no handler sets
StoreAnalysisStep_WrongKey(s, anaFail) ==
    [state |-> s, stored |-> {}, messages |-> 0, failed |-> FALSE]

\* the analyze branch of the node: store_analysis when analysis_result is truthy
StoreAnalysisStep(s, anaFail) ==
    LET doAna == Truthy(s.analysis_result)
        anaFailed == doAna /\ anaFail
    IN [state |-> IF anaFailed THEN MemoryUpdateFailed(s) ELSE s,
        stored |-> IF doAna /\ ~anaFailed THEN {"analysis"} ELSE {},
        messages |-> 0,
        failed |-> anaFailed]

UpdateMemoryNode(s, convFail, planFail, anaFail) ==
    IF Truthy(s.error) \/ ~Truthy(s.plan_id)
    THEN [state |-> s, stored |-> {}, messages |-> 0, failed |-> FALSE]
    ELSE IF s.action = MODIFY_PLAN
    THEN LET doConv == Truthy(s.user_message) /\ Truthy(s.response_message)
             convFailed == doConv /\ convFail
             doPlan == ~convFailed /\ Truthy(s.updated_plan)
             planFailed == doPlan /\ planFail
             \* plan_data["weeks"] = state["updated_plan"]
             s1 == IF doPlan THEN [s EXCEPT !.plan_data.weeks = s.updated_plan] ELSE s
         IN [state |-> IF convFailed \/ planFailed THEN MemoryUpdateFailed(s1) ELSE s1,
             stored |-> (IF doConv /\ ~convFailed THEN {"conversation"} ELSE {})
                        \cup (IF doPlan /\ ~planFailed THEN {"plan"} ELSE {}),
             messages |-> IF doConv THEN 2 ELSE 0,
             failed |-> convFailed \/ planFailed]
    ELSE IF s.action = ANALYZE_RECORD
    THEN StoreAnalysisStep(s, anaFail)
    ELSE [state |-> s, stored |-> {}, messages |-> 0, failed |-> FALSE]

(***************************************************************************)
(* CoachAgent._state_to_response and AgentResponse                         *)
(***************************************************************************)
NoResponse ==
    [success |-> FALSE, message |-> "", error |-> None, plan |-> None,
     updated_weeks |-> None, analysis |-> None]

state_to_response(action, s) ==
    IF Truthy(s.error)
    THEN [NoResponse EXCEPT !.message = s.response_message, !.error = s.error]
    ELSE LET ok == [NoResponse EXCEPT !.success = TRUE, !.message = s.response_message]
         IN IF action = GENERATE_PLAN
            THEN [ok EXCEPT
                    !.plan = IF "plan_data" \in DOMAIN s.tool_results
                             THEN s.tool_results["plan_data"] ELSE "{}",
                    !.updated_weeks = s.updated_plan]
            ELSE IF action = MODIFY_PLAN
            THEN [ok EXCEPT !.updated_weeks = s.updated_plan]
            ELSE IF action = ANALYZE_RECORD
            THEN [ok EXCEPT !.analysis = s.analysis_result]
            ELSE ok

(***************************************************************************)
(* AgentTraceContext and the nodes' use of state["_trace"].  A decision    *)
(* point is abstracted to its type and node; the trace keeps the first     *)
(* MaxDecisions points.  Each node is given the state and the trace and    *)
(* returns what it makes of both.                                          *)
(***************************************************************************)
\* state.get("_trace") of a state that carries none
NoTrace == [attached |-> FALSE, decisions |-> <<>>]

\* a log_decision that starts the list of decisions again
log_decision_Restarts(t, decision_type, node) ==
    [t EXCEPT !.decisions = <<[decision_type |-> decision_type, node |-> node]>>]

\* AgentTraceContext.log_decision
log_decision(t, decision_type, node) ==
    IF Len(t.decisions) < MaxDecisions
    THEN [t EXCEPT !.decisions =
                       Append(@, [decision_type |-> decision_type, node |-> node])]
    ELSE t

\* if trace: trace.log_...(...)
if_trace(t, decision_type, node) ==
    IF t.attached THEN log_decision(t, decision_type, node) ELSE t

Noded(out, t) == [out |-> out, trace |-> t]

retrieve_memory_node(s, t, lt, pref, wk, raised) ==
    Noded(RetrieveMemoryNode(s, lt, pref, wk, raised),
          if_trace(t, "memory_retrieved", "retrieve_memory"))

route_action_node(s, t) ==
    Noded(RouteActionNode(s),
          IF route(s) = RouteRaises THEN if_trace(t, "error_occurred", "error")
          ELSE if_trace(t, "action_routed", "route_action"))

check_tools_node(s, t, required, raised) ==
    Noded(CheckToolsNode(s, required, raised),
          IF Truthy(s.error) \/ raised THEN t
          ELSE if_trace(t, "tool_check", "check_tools"))

call_tool_node(s, t, outcome) ==
    Noded(CallToolNode(s, outcome),
          IF s.pending_tools = <<>> THEN t
          ELSE if_trace(t, "tool_called", "call_tool"))

\* _execute_action_node in which building the trace's summary fails and
\* lands in the node's except branch
execute_action_node_SummaryRaises(s, t, o1, o2) ==
    Noded(IF t.attached /\ ~Truthy(s.error)
          THEN [state |-> [s EXCEPT !.error = "summary",
                                    !.response_message = NodeFallbackMsg],
                calls |-> ExecuteActionNode(s, o1, o2).calls,
                handlers |-> ExecuteActionNode(s, o1, o2).handlers]
          ELSE ExecuteActionNode(s, o1, o2),
          IF Truthy(s.error) THEN t
          ELSE if_trace(t, "action_executed", "execute_action"))

execute_action_node(s, t, o1, o2) ==
    Noded(ExecuteActionNode(s, o1, o2),
          IF Truthy(s.error) THEN t
          ELSE if_trace(t, "action_executed", "execute_action"))

update_memory_node(s, t, convFail, planFail, anaFail) ==
    Noded(UpdateMemoryNode(s, convFail, planFail, anaFail),
          IF Truthy(s.error) THEN t
          ELSE if_trace(t, "memory_updated", "update_memory"))

(***************************************************************************)
(* State of one CoachAgent.execute call                                    *)
(***************************************************************************)
VARIABLES
    req,          \* the AgentRequest passed to execute (plan_data is the caller's dict)
    declared,     \* what the routed handler's get_required_tools returns
    pc,           \* the node to run next
    state,        \* the AgentState threaded through the graph
    runs,         \* how often each node has run
    invoked,      \* how often each tool's execute has been awaited
    lastCall,     \* the last call_tool step: tool name and outcome
    llmCalls,     \* chat_completion calls issued
    handlerRuns,  \* action handlers invoked
    ltm,          \* long-term categories written for the plan
    wm,           \* messages in the session's working memory
    memFail,      \* which memory operations failed
    response,     \* the AgentResponse returned to the caller
    entry,        \* the entry point called: execute or execute_stream
    streamed,     \* the chunks execute_stream has yielded
    trace         \* state["_trace"]: whether a trace is attached, its decisions

agentVars == <<req, declared, pc, state, runs, invoked, lastCall, llmCalls,
               handlerRuns, ltm, wm, memFail, response, entry, streamed, trace>>

(***************************************************************************)
(* State of one ResponseParser._merge_weeks call.  Lists and dicts are     *)
(* objects on a heap, so that a write through one reference is seen        *)
(* through every other reference to the same object.                       *)
(***************************************************************************)
VARIABLES
    heap,            \* the objects: week lists, week dicts, day lists
    heap0,           \* the heap as the caller passed it
    current_weeks,   \* address of the existing week list
    modified_weeks,  \* address of the list of modified weeks
    result,          \* address of the list being built, 0 before list(current_weeks)
    m_index,         \* position of the for loop in modified_weeks
    mpc              \* position in _merge_weeks

mergeVars == <<heap, heap0, current_weeks, modified_weeks, result, m_index, mpc>>

(***************************************************************************)
(* State of the WorkingMemory instance and of the threads calling it       *)
(***************************************************************************)
VARIABLES
    store,      \* _sessions, and the SessionState objects it has ever held
    now,        \* datetime.utcnow(), in minutes
    callers,    \* each calling thread: where it stands in add_message or set_context
    calls,      \* operations started so far
    ret,        \* the last operation that returned, and what it returned
    appended,   \* the messages whose add_message has returned
    wrote,      \* the scratch values whose writer has returned
    disturbed   \* the session ids cleared, evicted, replaced or overwritten so far

storeVars == <<store, now, callers, calls, ret, appended, wrote, disturbed>>

(***************************************************************************)
(* The user_preferences table behind PersistentMemory, and the requests    *)
(* that are inside add_insight                                             *)
(***************************************************************************)
VARIABLES
    prefs,      \* the rows of user_preferences
    pcallers,   \* each request: where it stands in add_insight, and what it read
    pcalls,     \* operations started so far
    pret,       \* the last get that returned, and what it returned
    added,      \* per plan, the insights whose add_insight has returned, in order
    lastSet,    \* per (plan, key), the value of the last set that went through
    overlapped, \* the plans on which two add_insight calls have overlapped
    misread     \* the plans for which the read of an add_insight call failed

prefsVars == <<prefs, pcallers, pcalls, pret, added, lastSet, overlapped,
              misread>>

(***************************************************************************)
(* The context_embeddings table behind VectorStore, and the                *)
(* store_plan_context call in progress                                     *)
(***************************************************************************)
VARIABLES
    embeddings,  \* the rows of context_embeddings
    storing,     \* the store_plan_context call in progress
    ccalls,      \* ContextManager calls started so far
    lastPlan     \* per plan, the last store_plan_context call: its number,
                 \* the weeks it was given, the row count of its delete,
                 \* whether it returned

contextVars == <<embeddings, storing, ccalls, lastPlan>>

vars == <<agentVars, mergeVars, storeVars, prefsVars, contextVars>>

notAgent == <<mergeVars, storeVars, prefsVars, contextVars>>
notMerge == <<agentVars, storeVars, prefsVars, contextVars>>
notStore == <<agentVars, mergeVars, prefsVars, contextVars>>
notPrefs == <<agentVars, mergeVars, storeVars, contextVars>>
notContext == <<agentVars, mergeVars, storeVars, prefsVars>>

\* what the nodes of the graph never touch
outsideGraph == <<entry, streamed, notAgent>>

SessionIds == {"s1", "s2"}
Callers == {1, 2}

\* WorkingMemory.__init__
EmptyStore == [sessions |-> [k \in {} |-> 0], objs |-> <<>>]

IdleCaller == [pc |-> "idle", sid |-> "", ref |-> 0, key |-> "", value |-> 0]
NoReturn == [n |-> 0, op |-> "", sid |-> "", value |-> 0, evicted |-> {}]

\* a WorkingMemory nobody has called yet
StoreIdle ==
    /\ store = EmptyStore
    /\ now = 0
    /\ callers = [c \in Callers |-> IdleCaller]
    /\ calls = 0
    /\ ret = NoReturn
    /\ appended = {}
    /\ wrote = {}
    /\ disturbed = {}

PlanIds == {"p1", "p2"}

\* PreferenceKey
TRAINING_STYLE == "training_style"
ACCUMULATED_INSIGHTS == "accumulated_insights"
PreferenceKeys == {TRAINING_STYLE, ACCUMULATED_INSIGHTS}

\* a preference_value: a JSON list of insights or a JSON object
ListValue(items) == [isList |-> TRUE, items |-> items, v |-> 0]
DictValue(v) == [isList |-> FALSE, items |-> <<>>, v |-> v]

\* no set has gone through for the pair
NoValue == DictValue(-1)

IdleRequester == [pc |-> "idle", plan_id |-> "", insights |-> <<>>, insight |-> 0]
NoGet == [n |-> 0, plan_id |-> "", key |-> "", value |-> NoValue, failed |-> FALSE]

\* an empty user_preferences table and nobody calling
PrefsIdle ==
    /\ prefs = {}
    /\ pcallers = [c \in Callers |-> IdleRequester]
    /\ pcalls = 0
    /\ pret = NoGet
    /\ added = [plan_id \in PlanIds |-> <<>>]
    /\ lastSet = [pair \in PlanIds \X PreferenceKeys |-> NoValue]
    /\ overlapped = {}
    /\ misread = {}

NotStoring == [pc |-> "idle", plan_id |-> "", weeks |-> 0, week |-> 0, n |-> 0]
NoPlanCall == [n |-> 0, weeks |-> 0, deleted |-> 0, returned |-> FALSE]

\* an empty context_embeddings table and nobody calling
ContextIdle ==
    /\ embeddings = {}
    /\ storing = NotStoring
    /\ ccalls = 0
    /\ lastPlan = [plan_id \in PlanIds |-> NoPlanCall]

EmptyHeap == [lists |-> <<>>, weeks |-> <<>>, days |-> <<>>]

\* no merge call in progress
MergeIdle ==
    /\ heap = EmptyHeap
    /\ heap0 = EmptyHeap
    /\ current_weeks = 0
    /\ modified_weeks = 0
    /\ result = 0
    /\ m_index = 0
    /\ mpc = "idle"

NoCall == [name |-> None, outcome |-> None]
NoMemFail == [long_term |-> FALSE, preferences |-> FALSE, retrieve |-> FALSE,
              update |-> FALSE]

\* Requests and handler declarations of the request-lifecycle specification:
\* every request, with a handler that declares nothing (BaseAction's default),
\* one registered tool, or one unregistered name.
LifecycleDeclared == {<<>>, <<"get_current_plan">>, <<UnregisteredTool>>}

\* Requests and handler declarations of the tool-loop specification: complete
\* generate and analyze requests, with every declaration up to MaxDeclared names.
ToolLoopRequests ==
    {r \in Requests :
        /\ r.action \in {GENERATE_PLAN, ANALYZE_RECORD}
        /\ r.plan_id = None
        /\ r.user_profile = "profile"
        /\ r.plan_data.userProfile = "planProfile"
        /\ r.user_message = None
        /\ r.record_data = "record"}

EntryPoints == {"execute", "execute_stream"}

InitWith(R, D) ==
    /\ req \in R
    /\ declared \in D
    /\ entry \in EntryPoints
    /\ pc = IF entry = "execute" THEN "entry" ELSE "stream_entry"
    /\ state = BlankState
    /\ runs = [n \in Nodes |-> 0]
    /\ invoked = [t \in ToolNames |-> 0]
    /\ lastCall = NoCall
    /\ llmCalls = 0
    /\ handlerRuns = 0
    /\ ltm = {}
    /\ wm = 0
    /\ memFail = NoMemFail
    /\ response = NoResponse
    /\ streamed = <<>>
    /\ trace = NoTrace
    /\ MergeIdle
    /\ StoreIdle
    /\ PrefsIdle
    /\ ContextIdle

Init == InitWith(Requests, LifecycleDeclared)

InitTools == InitWith(ToolLoopRequests, DeclaredLists)

Ran(node) == [runs EXCEPT ![node] = Sat(runs[node])]

\* CoachAgent.execute up to graph.ainvoke: the entry point is retrieve_memory
Execute ==
    /\ pc = "entry"
    /\ state' = create_initial_state(req)
    /\ trace' = log_decision([NoTrace EXCEPT !.attached = TRUE],
                             "request_received", "entry")
    /\ pc' = "retrieve_memory"
    /\ UNCHANGED <<req, declared, runs, invoked, lastCall, llmCalls, handlerRuns,
                   ltm, wm, memFail, response>>
    /\ UNCHANGED outsideGraph

\* node retrieve_memory, edge retrieve_memory -> route_action
RetrieveMemory ==
    /\ pc = "retrieve_memory"
    /\ \E lt \in LongTermOutcomes(state), pref \in PreferenceOutcomes(state),
          raised \in BOOLEAN :
          /\ LET r == retrieve_memory_node(state, trace, lt, pref,
                                           IF wm = 0 THEN "{}" ELSE "session", raised)
             IN /\ state' = r.out
                /\ trace' = r.trace
          /\ memFail' = [memFail EXCEPT !.long_term = (lt = "fail" /\ ~raised),
                                        !.preferences = (pref = "fail" /\ ~raised),
                                        !.retrieve = raised]
    /\ runs' = Ran("retrieve_memory")
    /\ pc' = "route_action"
    /\ UNCHANGED <<req, declared, invoked, lastCall, llmCalls, handlerRuns, ltm, wm,
                   response>>
    /\ UNCHANGED outsideGraph

\* node route_action, conditional edge _should_check_tools
RouteAction ==
    /\ pc = "route_action"
    /\ state' = route_action_node(state, trace).out
    /\ trace' = route_action_node(state, trace).trace
    /\ runs' = Ran("route_action")
    /\ pc' = should_check_tools(state')
    /\ UNCHANGED <<req, declared, invoked, lastCall, llmCalls, handlerRuns, ltm, wm,
                   memFail, response>>
    /\ UNCHANGED outsideGraph

\* node check_tools, conditional edge _has_pending_tools
CheckTools ==
    /\ pc = "check_tools"
    /\ \E raised \in BOOLEAN :
          /\ state' = check_tools_node(state, trace, declared, raised).out
          /\ trace' = check_tools_node(state, trace, declared, raised).trace
    /\ runs' = Ran("check_tools")
    /\ pc' = has_pending_tools(state')
    /\ UNCHANGED <<req, declared, invoked, lastCall, llmCalls, handlerRuns, ltm, wm,
                   memFail, response>>
    /\ UNCHANGED outsideGraph

\* node call_tool, edge call_tool -> check_tools
CallTool ==
    /\ pc = "call_tool"
    /\ LET name == Head(state.pending_tools)
       IN \E outcome \in ToolOutcomes(name) :
             /\ state' = call_tool_node(state, trace, outcome).out
             /\ trace' = call_tool_node(state, trace, outcome).trace
             /\ lastCall' = [name |-> name, outcome |-> outcome]
             /\ invoked' = IF name \in RegisteredTools
                           THEN [invoked EXCEPT ![name] = Sat(invoked[name])]
                           ELSE invoked
    /\ runs' = Ran("call_tool")
    /\ pc' = "check_tools"
    /\ UNCHANGED <<req, declared, llmCalls, handlerRuns, ltm, wm, memFail, response>>
    /\ UNCHANGED outsideGraph

\* node execute_action, edge execute_action -> update_memory
ExecuteAction ==
    /\ pc = "execute_action"
    /\ \E o1 \in FirstOutcomes(state) : \E o2 \in SecondOutcomes(state, o1) :
          LET r == execute_action_node(state, trace, o1, o2)
          IN /\ state' = r.out.state
             /\ trace' = r.trace
             /\ llmCalls' = llmCalls + r.out.calls
             /\ handlerRuns' = handlerRuns + r.out.handlers
    /\ runs' = Ran("execute_action")
    /\ pc' = "update_memory"
    /\ UNCHANGED <<req, declared, invoked, lastCall, ltm, wm, memFail, response>>
    /\ UNCHANGED outsideGraph

\* node update_memory, edge update_memory -> END
UpdateMemory ==
    /\ pc = "update_memory"
    /\ \E convFail \in BOOLEAN, planFail \in BOOLEAN, anaFail \in BOOLEAN :
          LET n == update_memory_node(state, trace, convFail, planFail, anaFail)
              r == n.out
          IN /\ state' = r.state
             /\ trace' = n.trace
             /\ ltm' = ltm \cup r.stored
             /\ wm' = wm + r.messages
             /\ memFail' = [memFail EXCEPT !.update = r.failed]
             \* state["plan_data"] is the caller's dict whenever that dict is non-empty
             /\ req' = IF TruthyPlan(req.plan_data)
                       THEN [req EXCEPT !.plan_data = r.state.plan_data]
                       ELSE req
    /\ runs' = Ran("update_memory")
    /\ pc' = "END"
    /\ UNCHANGED <<declared, invoked, lastCall, llmCalls, handlerRuns, response>>
    /\ UNCHANGED outsideGraph

\* CoachAgent.execute after graph.ainvoke
Respond ==
    /\ pc = "END"
    /\ response' = state_to_response(req.action, state)
    /\ trace' = log_decision(trace, "response_generated", "exit")
    /\ pc' = "returned"
    /\ UNCHANGED <<req, declared, state, runs, invoked, lastCall, llmCalls,
                   handlerRuns, ltm, wm, memFail>>
    /\ UNCHANGED outsideGraph

(***************************************************************************)
(* CoachAgent.execute_stream and the handlers' execute_stream.  A chunk is *)
(* abstracted to its kind: a progress line, generated text, an error line. *)
(***************************************************************************)
Streamed(chunks, n) == [chunks |-> chunks, calls |-> n]

\* outcomes of one chat_completion_stream call
StreamOutcomes == {"raise", "text", "text_then_raise", "nothing"}

\* GeneratePlanAction.execute_stream
GeneratePlanExecuteStream(s, o1, o2) ==
    LET opening == <<"progress", "progress">>
    IN IF o1 \in {"raise", "unparsable"} THEN Streamed(Append(opening, "error"), 1)
       ELSE IF o2 \in {"raise", "unparsable"}
       THEN Streamed(opening \o <<"progress", "error">>, 2)
       ELSE Streamed(opening \o <<"progress", "progress">>, 2)

\* the chunks of one chat_completion_stream call and of the except branch
StreamChunks(o) ==
    IF o = "raise" THEN <<"error">>
    ELSE IF o = "text_then_raise" THEN <<"text", "error">>
    ELSE IF o = "text" THEN <<"text">>
    ELSE <<>>

\* ModifyPlanAction.execute_stream
ModifyPlanExecuteStream(s, o) ==
    IF ~Truthy(s.user_message) THEN Streamed(<<"error">>, 0)
    ELSE Streamed(StreamChunks(o), 1)

\* AnalyzeRecordAction.execute_stream
AnalyzeRecordExecuteStream(s, o) ==
    IF ~Truthy(s.record_data) THEN Streamed(<<"error">>, 0)
    ELSE Streamed(StreamChunks(o), 1)

\* the outcomes the streaming handler can meet
FirstStreamOutcomes(s) ==
    IF s.action = GENERATE_PLAN THEN MacroOutcomes ELSE StreamOutcomes

SecondStreamOutcomes(s, o1) ==
    IF s.action = GENERATE_PLAN /\ o1 = "ok" THEN DetailOutcomes ELSE {None}

\* execute_stream handed to the graph's conditional edge after routing
stream_after_route_ThroughGraph(s) == should_check_tools(s)

\* execute_stream after _route_action_node: return on error, else the handler
stream_after_route(s) ==
    IF Truthy(s.error) THEN "stream_returned" ELSE "stream_handler"

\* execute_stream: create_initial_state
StreamExecute ==
    /\ pc = "stream_entry"
    /\ state' = create_initial_state(req)
    /\ pc' = "stream_retrieve"
    /\ UNCHANGED <<req, declared, runs, invoked, lastCall, llmCalls, handlerRuns,
                   ltm, wm, memFail, response, entry, streamed>>
    /\ UNCHANGED <<trace, notAgent>>

\* execute_stream: await self._retrieve_memory_node(initial_state)
StreamRetrieve ==
    /\ pc = "stream_retrieve"
    /\ \E lt \in LongTermOutcomes(state), pref \in PreferenceOutcomes(state),
          raised \in BOOLEAN :
          /\ state' = RetrieveMemoryNode(state, lt, pref,
                                         IF wm = 0 THEN "{}" ELSE "session", raised)
          /\ memFail' = [memFail EXCEPT !.long_term = (lt = "fail" /\ ~raised),
                                        !.preferences = (pref = "fail" /\ ~raised),
                                        !.retrieve = raised]
    /\ runs' = Ran("retrieve_memory")
    /\ pc' = "stream_route"
    /\ UNCHANGED <<req, declared, invoked, lastCall, llmCalls, handlerRuns, ltm, wm,
                   response, entry, streamed>>
    /\ UNCHANGED <<trace, notAgent>>

\* execute_stream: await self._route_action_node(state), and the error chunk
StreamRoute ==
    /\ pc = "stream_route"
    /\ state' = RouteActionNode(state)
    /\ runs' = Ran("route_action")
    /\ streamed' = IF Truthy(state'.error) THEN <<"error">> ELSE streamed
    /\ pc' = stream_after_route(state')
    /\ UNCHANGED <<req, declared, invoked, lastCall, llmCalls, handlerRuns, ltm, wm,
                   memFail, response, entry>>
    /\ UNCHANGED <<trace, notAgent>>

\* execute_stream: router.get_action(action_type).execute_stream(state)
StreamHandler ==
    /\ pc = "stream_handler"
    /\ \E o1 \in FirstStreamOutcomes(state) : \E o2 \in SecondStreamOutcomes(state, o1) :
          LET r == IF state.action = GENERATE_PLAN
                   THEN GeneratePlanExecuteStream(state, o1, o2)
                   ELSE IF state.action = MODIFY_PLAN
                   THEN ModifyPlanExecuteStream(state, o1)
                   ELSE AnalyzeRecordExecuteStream(state, o1)
          IN /\ streamed' = streamed \o r.chunks
             /\ llmCalls' = llmCalls + r.calls
    /\ handlerRuns' = handlerRuns + 1
    /\ pc' = "stream_returned"
    /\ UNCHANGED <<req, declared, state, runs, invoked, lastCall, ltm, wm, memFail,
                   response, entry>>
    /\ UNCHANGED <<trace, notAgent>>

Next ==
    \/ Execute
    \/ RetrieveMemory
    \/ RouteAction
    \/ CheckTools
    \/ CallTool
    \/ ExecuteAction
    \/ UpdateMemory
    \/ Respond
    \/ StreamExecute
    \/ StreamRetrieve
    \/ StreamRoute
    \/ StreamHandler

\* the request lifecycle, over every request
Spec == Init /\ [][Next]_vars

\* the tool loop, over every handler declaration
SpecTools == InitTools /\ [][Next]_vars

TypeOK ==
    /\ pc \in Nodes \cup {"idle", "entry", "END", "returned", "stream_entry",
                           "stream_retrieve", "stream_route", "stream_handler",
                           "stream_returned"}
    /\ llmCalls \in 0..2
    /\ handlerRuns \in 0..1
    /\ wm \in {0, 2}
    /\ ltm \subseteq {"conversation", "plan", "analysis"}

(***************************************************************************)
(* ResponseParser._merge_weeks and _merge_single_week                      *)
(***************************************************************************)
\* longest existing week list
MaxWeeks == 2
\* longest list of modified weeks
MaxMods == 2

\* no request in progress
IdleRequest ==
    [action |-> GENERATE_PLAN, plan_id |-> None, user_profile |-> None,
     plan_data |-> NonePlan, user_message |-> None, record_data |-> None]

AgentIdle ==
    /\ req = IdleRequest
    /\ declared = <<>>
    /\ entry = "execute"
    /\ pc = "idle"
    /\ state = BlankState
    /\ runs = [n \in Nodes |-> 0]
    /\ invoked = [t \in ToolNames |-> 0]
    /\ lastCall = NoCall
    /\ llmCalls = 0
    /\ handlerRuns = 0
    /\ ltm = {}
    /\ wm = 0
    /\ memFail = NoMemFail
    /\ response = NoResponse
    /\ streamed = <<>>
    /\ trace = NoTrace

\* a day entry: its label and the rest of its content
Day(label, content) == [day |-> label, content |-> content]

\* a week dict: the keys "weekNumber", "summary" and "days" may be missing
Week(hasNumber, number, hasSummary, summary, hasDays, days) ==
    [hasWeekNumber |-> hasNumber, weekNumber |-> number,
     hasSummary |-> hasSummary, summary |-> summary,
     hasDays |-> hasDays, days |-> days]

\* the weeks of an existing plan document, numbered from 1
ExistingWeeks(n) ==
    {Week(TRUE, n, TRUE, "s0", TRUE, <<Day("Mon", "a"), Day("Wed", "a")>>),
     Week(TRUE, n, FALSE, "", FALSE, <<>>)}

\* week numbers a modified week may carry
ModifiedNumbers == 0..(MaxWeeks + 2)

\* the modified weeks the generation backend may send
ModifiedWeeks ==
    {Week(hasN, IF hasN THEN n ELSE 0, w.hasSummary, w.summary, w.hasDays, w.days) :
        hasN \in BOOLEAN, n \in ModifiedNumbers,
        w \in {Week(FALSE, 0, TRUE, "s1", TRUE, <<Day("Wed", "b")>>),
               Week(FALSE, 0, FALSE, "", TRUE, <<Day("Mon", "a"), Day("Wed", "a")>>),
               Week(FALSE, 0, TRUE, "s0", TRUE, <<Day("Mon", "a"), Day("Wed", "a")>>),
               Week(FALSE, 0, FALSE, "", TRUE, <<Day("Fri", "b"), Day("Fri", "c")>>),
               Week(FALSE, 0, TRUE, "s1", FALSE, <<>>)}}

\* existing plan documents of up to MaxWeeks weeks
ExistingPlans ==
    UNION {{p \in [1..n -> UNION {ExistingWeeks(k) : k \in 1..n}] :
               \A k \in 1..n : p[k] \in ExistingWeeks(k)} : n \in 0..MaxWeeks}

\* lists of up to MaxMods modified weeks
ModifiedLists == UNION {[1..n -> ModifiedWeeks] : n \in 0..MaxMods}

\* json.loads: one dict object per week, one list object per "days" value
RECURSIVE AllocWeeks(_, _, _)
AllocWeeks(h, ws, k) ==
    IF k > Len(ws) THEN [heap |-> h, addrs |-> <<>>]
    ELSE LET w == ws[k]
             h1 == IF w.hasDays THEN [h EXCEPT !.days = Append(@, w.days)] ELSE h
             obj == [w EXCEPT !.days = IF w.hasDays THEN Len(h1.days) ELSE 0]
             h2 == [h1 EXCEPT !.weeks = Append(@, obj)]
             rest == AllocWeeks(h2, ws, k + 1)
         IN [heap |-> rest.heap, addrs |-> <<Len(h2.weeks)>> \o rest.addrs]

\* the arguments of a _merge_weeks call, as objects on the heap
AllocArguments(existing, modified) ==
    LET e == AllocWeeks(EmptyHeap, existing, 1)
        m == AllocWeeks(e.heap, modified, 1)
    IN [m.heap EXCEPT !.lists = <<e.addrs, m.addrs>>]

\* the value of a week object, its day list included
WeekValue(h, a) ==
    LET w == h.weeks[a]
    IN [w EXCEPT !.days = IF w.hasDays THEN h.days[w.days] ELSE <<>>]

\* the value of a week list
PlanValue(h, l) == [i \in 1..Len(h.lists[l]) |-> WeekValue(h, h.lists[l][i])]

\* the search loop of _merge_single_week: 0 for found_idx = -1
RECURSIVE find_day_from(_, _, _)
find_day_from(existing_days, day_name, i) ==
    IF i > Len(existing_days) THEN 0
    ELSE IF existing_days[i].day = day_name THEN i
    ELSE find_day_from(existing_days, day_name, i + 1)

\* the search loop comparing a key no day carries
find_day_WrongKey(existing_days, day_name) == 0

find_day(existing_days, day_name) == find_day_from(existing_days, day_name, 1)

\* one modified day that is appended whether or not its label exists
merge_day_AppendOnly(existing_days, m_day) == Append(existing_days, m_day)

\* one iteration of: for m_day in modified_week["days"]
merge_day(existing_days, m_day) ==
    LET found_idx == find_day(existing_days, m_day.day)
    IN IF found_idx > 0
       THEN [existing_days EXCEPT ![found_idx] = m_day]
       ELSE Append(existing_days, m_day)

RECURSIVE merge_days(_, _, _)
merge_days(existing_days, m_days, k) ==
    IF k > Len(m_days) THEN existing_days
    ELSE merge_days(merge_day(existing_days, m_days[k]), m_days, k + 1)

\* result.get("days", []) used without the copy
ExistingDaysCopy_Alias(h, w) ==
    IF w.hasDays THEN [heap |-> h, addr |-> w.days]
    ELSE [heap |-> [h EXCEPT !.days = Append(@, <<>>)], addr |-> Len(h.days) + 1]

\* list(result.get("days", []))
ExistingDaysCopy(h, w) ==
    [heap |-> [h EXCEPT !.days = Append(@, IF w.hasDays THEN h.days[w.days] ELSE <<>>)],
     addr |-> Len(h.days) + 1]

\* _merge_single_week that takes the modified week's day list for the result
merge_single_week_ReplaceDays(h, e, m) ==
    LET modified_week == h.weeks[m]
        r0 == h.weeks[e]
        r1 == IF modified_week.hasSummary
              THEN [r0 EXCEPT !.hasSummary = TRUE, !.summary = modified_week.summary]
              ELSE r0
        c == ExistingDaysCopy(h, r1)
        h1 == IF modified_week.hasDays
              THEN [c.heap EXCEPT !.days[c.addr] = h.days[modified_week.days]]
              ELSE h
        r2 == IF modified_week.hasDays
              THEN [r1 EXCEPT !.hasDays = TRUE, !.days = c.addr]
              ELSE r1
    IN [heap |-> [h1 EXCEPT !.weeks = Append(@, r2)], addr |-> Len(h1.weeks) + 1]

\* _merge_single_week on the objects at e and m: the new heap and the
\* address of the returned dict
merge_single_week(h, e, m) ==
    LET modified_week == h.weeks[m]
        \* result = dict(existing_week)
        r0 == h.weeks[e]
        r1 == IF modified_week.hasSummary
              THEN [r0 EXCEPT !.hasSummary = TRUE, !.summary = modified_week.summary]
              ELSE r0
        c == ExistingDaysCopy(h, r1)
        merged == merge_days(c.heap.days[c.addr], h.days[modified_week.days], 1)
        h1 == IF modified_week.hasDays
              THEN [c.heap EXCEPT !.days[c.addr] = merged]
              ELSE h
        r2 == IF modified_week.hasDays
              THEN [r1 EXCEPT !.hasDays = TRUE, !.days = c.addr]
              ELSE r1
    IN [heap |-> [h1 EXCEPT !.weeks = Append(@, r2)], addr |-> Len(h1.weeks) + 1]

\* the branches without the elif that appends
week_branch_NoAppend(idx, n) ==
    IF 0 <= idx /\ idx < n THEN "merge" ELSE "skip"

\* the branches with the append test written idx >= len(result)
week_branch_AppendPastEnd(idx, n) ==
    IF 0 <= idx /\ idx < n THEN "merge"
    ELSE IF idx >= n THEN "append"
    ELSE "skip"

\* the branches of the loop body of _merge_weeks
week_branch(idx, n) ==
    IF 0 <= idx /\ idx < n THEN "merge"
    ELSE IF idx = n THEN "append"
    ELSE "skip"

\* the loop body of _merge_weeks for the modified week at m
merge_week_step(h, res, m) ==
    LET m_week == h.weeks[m]
        idx == m_week.weekNumber - 1
        branch == IF m_week.hasWeekNumber
                  THEN week_branch(idx, Len(h.lists[res]))
                  ELSE "skip"
    IN IF branch = "merge"
       THEN LET r == merge_single_week(h, h.lists[res][idx + 1], m)
            IN [r.heap EXCEPT !.lists[res][idx + 1] = r.addr]
       ELSE IF branch = "append"
       THEN [h EXCEPT !.lists[res] = Append(@, m)]
       ELSE h

\* the loop of _merge_weeks from the k-th modified week on
RECURSIVE merge_weeks_from(_, _, _, _)
merge_weeks_from(h, res, mods, k) ==
    IF k > Len(h.lists[mods]) THEN h
    ELSE merge_weeks_from(merge_week_step(h, res, h.lists[mods][k]), res, mods, k + 1)

\* _merge_weeks(current_weeks, modified_weeks) as one call: the heap it
\* leaves and the address of the list it returns
merge_weeks(h, cur, mods) ==
    LET h1 == [h EXCEPT !.lists = Append(@, h.lists[cur])]
        res == Len(h.lists) + 1
    IN [heap |-> merge_weeks_from(h1, res, mods, 1), result |-> res]

InitMerge ==
    /\ AgentIdle
    /\ StoreIdle
    /\ PrefsIdle
    /\ ContextIdle
    /\ \E existing \in ExistingPlans, modified \in ModifiedLists :
          heap = AllocArguments(existing, modified)
    /\ heap0 = heap
    /\ current_weeks = 1
    /\ modified_weeks = 2
    /\ result = 0
    /\ m_index = 0
    /\ mpc = "start"

\* result = list(current_weeks)
MergeStart ==
    /\ mpc = "start"
    /\ heap' = [heap EXCEPT !.lists = Append(@, heap.lists[current_weeks])]
    /\ result' = Len(heap.lists) + 1
    /\ m_index' = 1
    /\ mpc' = "loop"
    /\ UNCHANGED <<heap0, current_weeks, modified_weeks>>
    /\ UNCHANGED notMerge

\* one iteration of: for m_week in modified_weeks
MergeWeek ==
    /\ mpc = "loop"
    /\ m_index <= Len(heap.lists[modified_weeks])
    /\ heap' = merge_week_step(heap, result, heap.lists[modified_weeks][m_index])
    /\ m_index' = m_index + 1
    /\ UNCHANGED <<heap0, current_weeks, modified_weeks, result, mpc>>
    /\ UNCHANGED notMerge

\* return result
MergeReturn ==
    /\ mpc = "loop"
    /\ m_index > Len(heap.lists[modified_weeks])
    /\ mpc' = "done"
    /\ UNCHANGED <<heap, heap0, current_weeks, modified_weeks, result, m_index>>
    /\ UNCHANGED notMerge

NextMerge ==
    \/ MergeStart
    \/ MergeWeek
    \/ MergeReturn

\* one _merge_weeks call, over existing plans and lists of modified weeks
SpecMerge == InitMerge /\ [][NextMerge]_vars

(***************************************************************************)
(* WorkingMemory and SessionState.  Every method body that runs under      *)
(* self._lock is one step; add_message and set_context take the lock       *)
(* twice, once inside get_or_create and once for their own write, and hold *)
(* a reference to the SessionState object in between.                      *)
(***************************************************************************)
\* operations started per behaviour
MaxCalls == 3

\* MemoryManager: WorkingMemory(ttl_minutes=60)
TTL_MINUTES == 60

\* the times at which the clock is read: the start, one TTL later (a session
\* idle for exactly the TTL has not expired) and a minute past that
ClockTimes == {0, TTL_MINUTES, TTL_MINUTES + 1}

ContextKeys == {"k"}

\* del d[k]
DictDel(d, k) == [x \in (DOMAIN d) \ {k} |-> d[x]]

\* SessionState(session_id=..., plan_id=...); created_at is never read
SessionState(session_id, plan_id, t) ==
    [session_id |-> session_id,
     plan_id |-> plan_id,
     conversation_history |-> <<>>,
     context |-> EmptyDict,
     last_accessed |-> t]

\* SessionState.is_expired
is_expired(session, t) == t - session.last_accessed > TTL_MINUTES

\* a touch that leaves the last-access time as it was
touch_Stale(S, a, t) == S

\* SessionState.touch on the object at address a
touch(S, a, t) == [S EXCEPT !.objs[a].last_accessed = t]

\* self._sessions[session_id] = a new SessionState
Install(S, session_id, plan_id, t) ==
    [sessions |-> DictSet(S.sessions, session_id, Len(S.objs) + 1),
     objs |-> Append(S.objs, SessionState(session_id, plan_id, t))]

\* the session stored under the id is past its TTL
StoredExpired(S, session_id, t) ==
    /\ session_id \in DOMAIN S.sessions
    /\ is_expired(S.objs[S.sessions[session_id]], t)

\* get that hands out the stored session without looking at its age
WorkingGet_NoExpiry(S, session_id, t) ==
    IF session_id \notin DOMAIN S.sessions THEN [store |-> S, ret |-> 0]
    ELSE [store |-> touch(S, S.sessions[session_id], t), ret |-> S.sessions[session_id]]

\* WorkingMemory.get: the store afterwards and the address returned, 0 for None
WorkingGet(S, session_id, t) ==
    IF session_id \notin DOMAIN S.sessions THEN [store |-> S, ret |-> 0]
    ELSE IF StoredExpired(S, session_id, t)
    THEN [store |-> [S EXCEPT !.sessions = DictDel(@, session_id)], ret |-> 0]
    ELSE [store |-> touch(S, S.sessions[session_id], t), ret |-> S.sessions[session_id]]

\* get_or_create that installs a new session whatever is stored
get_or_create_AlwaysNew(S, session_id, plan_id, t) ==
    [store |-> Install(S, session_id, plan_id, t), ret |-> Len(S.objs) + 1]

\* WorkingMemory.get_or_create
get_or_create(S, session_id, plan_id, t) ==
    IF session_id \in DOMAIN S.sessions /\ ~StoredExpired(S, session_id, t)
    THEN [store |-> touch(S, S.sessions[session_id], t), ret |-> S.sessions[session_id]]
    ELSE [store |-> Install(S, session_id, plan_id, t), ret |-> Len(S.objs) + 1]

\* the updates dict of WorkingMemory.update
Updates(hasPlan, hasHistory, hasContext, v) ==
    [hasPlan |-> hasPlan, hasHistory |-> hasHistory, hasContext |-> hasContext,
     value |-> v]

UpdateChoices(v) ==
    {Updates(TRUE, FALSE, FALSE, v), Updates(FALSE, TRUE, FALSE, v),
     Updates(FALSE, FALSE, TRUE, v)}

\* WorkingMemory.update
WorkingUpdate(S, session_id, updates, t) ==
    LET S1 == IF session_id \in DOMAIN S.sessions THEN S
              ELSE Install(S, session_id, None, t)
        a == S1.sessions[session_id]
        o == S1.objs[a]
    IN [S1 EXCEPT !.objs[a] =
          [o EXCEPT
             !.plan_id = IF updates.hasPlan THEN "p1" ELSE @,
             !.conversation_history = IF updates.hasHistory THEN <<>> ELSE @,
             !.context = IF updates.hasContext
                         THEN DictSet(@, "k", updates.value) ELSE @,
             !.last_accessed = t]]

\* add_message, its own locked section, on the object it was handed
append_message(S, a, content, t) ==
    [S EXCEPT !.objs[a].conversation_history =
                  Append(@, [role |-> "user", content |-> content]),
              !.objs[a].last_accessed = t]

\* set_context, its own locked section, on the object it was handed
put_context(S, a, key, value, t) ==
    [S EXCEPT !.objs[a].context = DictSet(@, key, value),
              !.objs[a].last_accessed = t]

\* WorkingMemory.clear
WorkingClear(S, session_id) ==
    IF session_id \in DOMAIN S.sessions
    THEN [S EXCEPT !.sessions = DictDel(@, session_id)]
    ELSE S

\* a sweep that empties the store
cleanup_expired_Everything(S, t) ==
    [store |-> [S EXCEPT !.sessions = EmptyStore.sessions],
     ret |-> Cardinality(DOMAIN S.sessions)]

\* WorkingMemory.cleanup_expired: the store afterwards and the count returned
cleanup_expired(S, t) ==
    LET expired == {sid \in DOMAIN S.sessions : StoredExpired(S, sid, t)}
    IN [store |-> [S EXCEPT !.sessions = [x \in (DOMAIN @) \ expired |-> @[x]]],
        ret |-> Cardinality(expired)]

\* the ids whose entry is deleted from S to S2
Evicted(S, S2) == (DOMAIN S.sessions) \ (DOMAIN S2.sessions)

\* the ids among sids whose stored session is past its TTL
ExpiredAmong(sids) == {sid \in sids : StoredExpired(store, sid, now)}

\* an object no reference leads to any more
Freed == SessionState("", None, 0)

\* the store once the objects that neither _sessions nor a caller refers to
\* are garbage
Collect(S, cs) ==
    [S EXCEPT !.objs =
        [a \in DOMAIN S.objs |->
            IF (\E sid \in DOMAIN S.sessions : S.sessions[sid] = a)
               \/ (\E c \in Callers : cs[c].ref = a)
            THEN S.objs[a] ELSE Freed]]

\* the caller that starts the next two-step operation: any thread that is
\* not inside one, and they are all alike
FreeCaller(c) ==
    /\ callers[c].pc = "idle"
    /\ \A d \in Callers : callers[d].pc = "idle" => c <= d

Returned(op, session_id, value, evicted) ==
    [n |-> calls + 1, op |-> op, sid |-> session_id, value |-> value,
     evicted |-> evicted]

InitStore ==
    /\ AgentIdle
    /\ MergeIdle
    /\ StoreIdle
    /\ PrefsIdle
    /\ ContextIdle

\* an operation that runs in one locked section: what it leaves and returns,
\* and the ids it found expired or cleared
Atomic(op, session_id, r, found) ==
    /\ calls < MaxCalls
    /\ store' = Collect(r.store, callers)
    /\ ret' = Returned(op, session_id, r.ret, Evicted(store, r.store))
    /\ calls' = calls + 1
    /\ disturbed' = disturbed \cup found
    /\ UNCHANGED <<now, callers, appended, wrote>>
    /\ UNCHANGED notStore

\* get, and to_dict, get_conversation_history and get_context, which read
\* through get
Get ==
    \E sid \in SessionIds :
        Atomic("get", sid, WorkingGet(store, sid, now), ExpiredAmong({sid}))

GetOrCreate ==
    \E sid \in SessionIds :
        Atomic("get_or_create", sid, get_or_create(store, sid, None, now),
               ExpiredAmong({sid}))

Update ==
    /\ calls < MaxCalls
    /\ \E sid \in SessionIds, u \in UpdateChoices(calls + 1) :
          /\ store' = Collect(WorkingUpdate(store, sid, u, now), callers)
          /\ ret' = Returned("update", sid, 0, {})
          /\ disturbed' = disturbed \cup (IF u.hasHistory THEN {sid} ELSE {})
          /\ wrote' = wrote \cup (IF u.hasContext
                                  THEN {[sid |-> sid, key |-> "k", value |-> u.value]}
                                  ELSE {})
    /\ calls' = calls + 1
    /\ UNCHANGED <<now, callers, appended>>
    /\ UNCHANGED notStore

Clear ==
    \E sid \in SessionIds :
        Atomic("clear", sid, [store |-> WorkingClear(store, sid), ret |-> 0],
               {sid} \cap DOMAIN store.sessions)

CleanupExpired ==
    Atomic("cleanup_expired", "", cleanup_expired(store, now),
           ExpiredAmong(DOMAIN store.sessions))

\* add_message and set_context up to the return of get_or_create
BeginWrite(c, op) ==
    /\ calls < MaxCalls
    /\ FreeCaller(c)
    /\ \E sid \in SessionIds, key \in ContextKeys :
          LET r == get_or_create(store, sid, None, now)
          IN /\ callers' = [callers EXCEPT ![c] =
                               [pc |-> op, sid |-> sid, ref |-> r.ret,
                                key |-> IF op = "set_context" THEN key ELSE "",
                                value |-> calls + 1]]
             /\ store' = Collect(r.store, callers')
             /\ disturbed' = disturbed \cup ExpiredAmong({sid})
    /\ calls' = calls + 1
    /\ UNCHANGED <<now, ret, appended, wrote>>
    /\ UNCHANGED notStore

AddMessageBegin == \E c \in Callers : BeginWrite(c, "add_message")

\* add_message from its own "with self._lock" to the return
AddMessageAppend ==
    \E c \in Callers :
        /\ callers[c].pc = "add_message"
        /\ callers' = [callers EXCEPT ![c] = IdleCaller]
        /\ store' = Collect(append_message(store, callers[c].ref, callers[c].value, now),
                            callers')
        /\ appended' = appended \cup {[sid |-> callers[c].sid, content |-> callers[c].value]}
        /\ UNCHANGED <<now, calls, ret, wrote, disturbed>>
        /\ UNCHANGED notStore

SetContextBegin == \E c \in Callers : BeginWrite(c, "set_context")

\* set_context from its own "with self._lock" to the return
SetContextPut ==
    \E c \in Callers :
        /\ callers[c].pc = "set_context"
        /\ callers' = [callers EXCEPT ![c] = IdleCaller]
        /\ store' = Collect(put_context(store, callers[c].ref, callers[c].key,
                                        callers[c].value, now),
                            callers')
        /\ wrote' = wrote \cup {[sid |-> callers[c].sid, key |-> callers[c].key,
                                 value |-> callers[c].value]}
        /\ UNCHANGED <<now, calls, ret, appended, disturbed>>
        /\ UNCHANGED notStore

\* time passes
Tick ==
    /\ \E t \in ClockTimes :
          /\ t > now
          /\ now' = t
    /\ UNCHANGED <<store, callers, calls, ret, appended, wrote, disturbed>>
    /\ UNCHANGED notStore

NextStore ==
    \/ Get
    \/ GetOrCreate
    \/ Update
    \/ Clear
    \/ CleanupExpired
    \/ AddMessageBegin
    \/ AddMessageAppend
    \/ SetContextBegin
    \/ SetContextPut
    \/ Tick

\* one WorkingMemory instance under concurrent callers
SpecStore == InitStore /\ [][NextStore]_vars

(***************************************************************************)
(* PersistentMemory over the user_preferences table.  Every awaited        *)
(* statement is one step: get is one query, set is one upsert, add_insight *)
(* is a query followed by an upsert, and other requests may run between    *)
(* the two.                                                                *)
(***************************************************************************)
\* operations started per behaviour
MaxPrefCalls == 3

\* insights = insights[-50:]
INSIGHT_CAP == 50

\* the values a caller sets
PrefValues == {1, 2}

\* how many insights plan p1 holds at the start: none, one below the cap,
\* the cap
InitialInsightCounts == {0, INSIGHT_CAP - 1, INSIGHT_CAP}

\* the rows of the (plan_id, preference_key) pair
Matching(T, plan_id, key) ==
    {r \in T : r.plan_id = plan_id /\ r.preference_key = key}

UserPreference(T, plan_id, key, value, t) ==
    [id |-> Cardinality(T) + 1, plan_id |-> plan_id, preference_key |-> key,
     preference_value |-> value, created_at |-> t, updated_at |-> t]

\* PersistentMemory.get with a key: the value of the row, {} when there is
\* none or when the query raised
persistent_get(T, plan_id, key, fails) ==
    IF fails \/ Matching(T, plan_id, key) = {} THEN DictValue(0)
    ELSE (CHOOSE r \in Matching(T, plan_id, key) : TRUE).preference_value

\* an insert that ignores the row already there
persistent_set_InsertOnly(T, plan_id, key, value, t) ==
    T \cup {UserPreference(T, plan_id, key, value, t)}

\* PersistentMemory.set: insert ... on conflict (plan_id, preference_key) do
\* update
persistent_set(T, plan_id, key, value, t) ==
    IF Matching(T, plan_id, key) = {}
    THEN T \cup {UserPreference(T, plan_id, key, value, t)}
    ELSE {IF r \in Matching(T, plan_id, key)
          THEN [r EXCEPT !.preference_value = value, !.updated_at = t]
          ELSE r : r \in T}

\* s[-n:]
LastN(s, n) == IF Len(s) <= n THEN s ELSE SubSeq(s, Len(s) - n + 1, Len(s))

\* add_insight up to the slice: the list it is going to store
add_insight(T, plan_id, insight, fails) ==
    LET got == persistent_get(T, plan_id, ACCUMULATED_INSIGHTS, fails)
        insights == IF got.isList THEN got.items ELSE <<>>
    IN LastN(Append(insights, insight), INSIGHT_CAP)

\* the insights 1..n, as n add_insight calls in a row leave them
StoredInsights(n) == [i \in 1..n |-> i]

InitPrefs ==
    /\ AgentIdle
    /\ MergeIdle
    /\ StoreIdle
    /\ ContextIdle
    /\ \E n \in InitialInsightCounts :
          /\ prefs = IF n = 0 THEN {}
                     ELSE persistent_set({}, "p1", ACCUMULATED_INSIGHTS,
                                         ListValue(StoredInsights(n)), 0)
          /\ added = [plan_id \in PlanIds |->
                         IF plan_id = "p1" THEN StoredInsights(n) ELSE <<>>]
          /\ lastSet = [pair \in PlanIds \X PreferenceKeys |->
                           IF n > 0 /\ pair = <<"p1", ACCUMULATED_INSIGHTS>>
                           THEN ListValue(StoredInsights(n)) ELSE NoValue]
    /\ pcallers = [c \in Callers |-> IdleRequester]
    /\ pcalls = 0
    /\ pret = NoGet
    /\ overlapped = {}
    /\ misread = {}

\* what a set that went through leaves in the bookkeeping
Recorded(plan_id, key, value, fails) ==
    IF fails THEN lastSet ELSE [lastSet EXCEPT ![<<plan_id, key>>] = value]

\* set(plan_id, key, value); a failing statement raises and changes nothing
PrefSet ==
    /\ pcalls < MaxPrefCalls
    /\ \E plan_id \in PlanIds, v \in PrefValues, fails \in BOOLEAN :
          /\ prefs' = IF fails THEN prefs
                      ELSE persistent_set(prefs, plan_id, TRAINING_STYLE,
                                          DictValue(v), pcalls + 1)
          /\ lastSet' = Recorded(plan_id, TRAINING_STYLE, DictValue(v), fails)
    /\ pcalls' = pcalls + 1
    /\ UNCHANGED <<pcallers, pret, added, overlapped, misread>>
    /\ UNCHANGED notPrefs

\* get(plan_id, key)
PrefGet ==
    /\ pcalls < MaxPrefCalls
    /\ \E plan_id \in PlanIds, key \in PreferenceKeys, fails \in BOOLEAN :
          pret' = [n |-> pcalls + 1, plan_id |-> plan_id, key |-> key,
                   value |-> persistent_get(prefs, plan_id, key, fails),
                   failed |-> fails]
    /\ pcalls' = pcalls + 1
    /\ UNCHANGED <<prefs, pcallers, added, lastSet, overlapped, misread>>
    /\ UNCHANGED notPrefs

\* add_insight up to "await self.set": the insight is the call's number, past
\* the ones stored at the start
AddInsightRead ==
    /\ pcalls < MaxPrefCalls
    /\ \E c \in Callers, plan_id \in PlanIds, fails \in BOOLEAN :
          /\ pcallers[c].pc = "idle"
          /\ \A d \in Callers : pcallers[d].pc = "idle" => c <= d
          /\ pcallers' = [pcallers EXCEPT ![c] =
                [pc |-> "set", plan_id |-> plan_id,
                 insights |-> add_insight(prefs, plan_id,
                                          INSIGHT_CAP + pcalls + 1, fails),
                 insight |-> INSIGHT_CAP + pcalls + 1]]
          /\ overlapped' = overlapped \cup
                {p \in {plan_id} : \E d \in Callers : pcallers[d].plan_id = p}
          /\ misread' = misread \cup (IF fails THEN {plan_id} ELSE {})
    /\ pcalls' = pcalls + 1
    /\ UNCHANGED <<prefs, pret, added, lastSet>>
    /\ UNCHANGED notPrefs

\* the set that ends add_insight; when it raises add_insight raises
AddInsightSet ==
    /\ \E c \in Callers, fails \in BOOLEAN :
          LET r == pcallers[c]
          IN /\ r.pc = "set"
             /\ prefs' = IF fails THEN prefs
                         ELSE persistent_set(prefs, r.plan_id, ACCUMULATED_INSIGHTS,
                                             ListValue(r.insights), pcalls)
             /\ lastSet' = Recorded(r.plan_id, ACCUMULATED_INSIGHTS,
                                    ListValue(r.insights), fails)
             /\ added' = IF fails THEN added
                         ELSE [added EXCEPT ![r.plan_id] = Append(@, r.insight)]
             /\ pcallers' = [pcallers EXCEPT ![c] = IdleRequester]
    /\ UNCHANGED <<pcalls, pret, overlapped, misread>>
    /\ UNCHANGED notPrefs

NextPrefs ==
    \/ PrefSet
    \/ PrefGet
    \/ AddInsightRead
    \/ AddInsightSet

\* one user_preferences table under concurrent requests
SpecPrefs == InitPrefs /\ [][NextPrefs]_vars

(***************************************************************************)
(* ContextManager over VectorStore.  Every awaited VectorStore call is one *)
(* step; store raises when the embedding backend fails, and the exception  *)
(* ends the ContextManager call where it stands.                           *)
(***************************************************************************)
\* ContextManager calls started per behaviour
MaxContextCalls == 3

\* ContentType
PLAN == "plan"
ANALYSIS == "analysis"
HISTORY == "history"

\* ContextEmbedding(...); by is the call that created the record, week the
\* weekNumber of its metadata
ContextEmbedding(plan_id, content_type, type, week, by) ==
    [plan_id |-> plan_id, content_type |-> content_type, type |-> type,
     week |-> week, by |-> by]

\* VectorStore.store
vector_store(T, record) == T \cup {record}

\* a delete that does not look at the content types
delete_by_plan_AllTypes(T, plan_id, content_types) ==
    {r \in T : r.plan_id # plan_id}

\* VectorStore.delete_by_plan with content types given
delete_by_plan(T, plan_id, content_types) ==
    {r \in T : ~(r.plan_id = plan_id /\ r.content_type \in content_types)}

InitContext ==
    /\ AgentIdle
    /\ MergeIdle
    /\ StoreIdle
    /\ PrefsIdle
    /\ ContextIdle

\* store_plan_context up to the return of delete_by_plan
StorePlanDelete ==
    /\ ccalls < MaxContextCalls
    /\ storing.pc = "idle"
    /\ \E plan_id \in PlanIds, weeks \in 0..MaxWeeks :
          /\ embeddings' = delete_by_plan(embeddings, plan_id, {PLAN})
          /\ storing' = [pc |-> "summary", plan_id |-> plan_id, weeks |-> weeks,
                         week |-> 0, n |-> ccalls + 1]
          /\ lastPlan' = [lastPlan EXCEPT ![plan_id] =
                             [n |-> ccalls + 1, weeks |-> weeks,
                              deleted |-> Cardinality(embeddings)
                                              - Cardinality(embeddings'),
                              returned |-> FALSE]]
    /\ ccalls' = ccalls + 1
    /\ UNCHANGED notContext

\* where store_plan_context stands once week records up to week are stored
AfterStore(s, week) ==
    IF week < s.weeks THEN [s EXCEPT !.pc = "weeks", !.week = week]
    ELSE NotStoring

\* the call has returned if it has stored its last record
Returning(s, week) ==
    [lastPlan EXCEPT ![s.plan_id].returned = (week = s.weeks)]

\* store_plan_context: the store of the plan summary
StorePlanSummary ==
    /\ storing.pc = "summary"
    /\ \E fails \in BOOLEAN :
          IF fails
          THEN /\ storing' = NotStoring
               /\ UNCHANGED <<embeddings, lastPlan>>
          ELSE /\ embeddings' = vector_store(embeddings,
                      ContextEmbedding(storing.plan_id, PLAN, "plan_summary", 0,
                                       storing.n))
               /\ storing' = AfterStore(storing, 0)
               /\ lastPlan' = Returning(storing, 0)
    /\ UNCHANGED ccalls
    /\ UNCHANGED notContext

\* store_plan_context: one pass of "for week in weeks"
StorePlanWeek ==
    /\ storing.pc = "weeks"
    /\ \E fails \in BOOLEAN :
          IF fails
          THEN /\ storing' = NotStoring
               /\ UNCHANGED <<embeddings, lastPlan>>
          ELSE /\ embeddings' = vector_store(embeddings,
                      ContextEmbedding(storing.plan_id, PLAN, "week_detail",
                                       storing.week + 1, storing.n))
               /\ storing' = AfterStore(storing, storing.week + 1)
               /\ lastPlan' = Returning(storing, storing.week + 1)
    /\ UNCHANGED ccalls
    /\ UNCHANGED notContext

\* store_analysis_context and store_conversation_context, of any request
StoreOther(content_type, type) ==
    /\ ccalls < MaxContextCalls
    /\ \E plan_id \in PlanIds, fails \in BOOLEAN :
          embeddings' = IF fails THEN embeddings
                        ELSE vector_store(embeddings,
                                 ContextEmbedding(plan_id, content_type, type, 0,
                                                  ccalls + 1))
    /\ ccalls' = ccalls + 1
    /\ UNCHANGED <<storing, lastPlan>>
    /\ UNCHANGED notContext

StoreAnalysisContext == StoreOther(ANALYSIS, "workout_analysis")

StoreConversationContext == StoreOther(HISTORY, "conversation")

NextContext ==
    \/ StorePlanDelete
    \/ StorePlanSummary
    \/ StorePlanWeek
    \/ StoreAnalysisContext
    \/ StoreConversationContext

\* one context_embeddings table, store_plan_context calls one at a time
SpecContext == InitContext /\ [][NextContext]_vars

(***************************************************************************)
(* Properties                                                              *)
(***************************************************************************)
ValidationErrors == {NoMessageMsg, NoRecordMsg}

\* the request lacks the payload its action kind requires
MissingRequired(r) ==
    \/ r.action = GENERATE_PLAN /\ ~Truthy(r.user_profile)
    \/ r.action = MODIFY_PLAN /\ ~Truthy(r.user_message)
    \/ r.action = ANALYZE_RECORD /\ ~Truthy(r.record_data)

\* C1: the check_tools/call_tool loop is cut by a hard ceiling: a request
\* runs call_tool at most as many times as there are registered tools.
C1_IterationCeiling == runs["call_tool"] <= Cardinality(RegisteredTools)

\* C2: once state.error is set, every later node leaves the state as it is,
\* invokes no handler, issues no generation call and writes no memory tier.
C2_ErrorFreezesState ==
    [][Truthy(state.error) =>
          /\ state' = state
          /\ handlerRuns' = handlerRuns
          /\ llmCalls' = llmCalls
          /\ ltm' = ltm
          /\ wm' = wm]_vars

\* a routing error carried through execute_action and update_memory to the end
C2_Witness ==
    /\ pc = "returned"
    /\ state.error = RoutingErrorMsg
    /\ runs["execute_action"] = 1
    /\ runs["update_memory"] = 1
    /\ handlerRuns = 0

\* C3: one call_tool step on a non-empty pending list removes exactly the
\* first pending name and adds at most one key to tool_results: the called
\* name when the tool is registered and returns, none when the name is
\* unregistered or the tool raises.
C3_CallToolStep ==
    [][(pc = "call_tool" /\ state.pending_tools # <<>>) =>
          LET name == Head(state.pending_tools)
              before == DOMAIN state.tool_results
              after == DOMAIN state'.tool_results
          IN /\ state'.pending_tools = Tail(state.pending_tools)
             /\ Len(state'.pending_tools) = Len(state.pending_tools) - 1
             /\ before \subseteq after
             /\ after \ before \subseteq {name}
             /\ (name \in RegisteredTools /\ lastCall'.outcome \in {"data", None})
                    => name \in after
             /\ (name \notin RegisteredTools \/ lastCall'.outcome = "raise")
                    => after = before]_vars

\* a registered tool has returned and an unregistered name has been skipped
C3_Witness ==
    /\ runs["call_tool"] = 2
    /\ lastCall.outcome = "notfound"
    /\ Cardinality(DOMAIN state.tool_results) = 1
    /\ state.pending_tools = <<>>

\* C4: within one request no tool is invoked more than once.
C4_NoToolInvokedTwice == \A t \in ToolNames : invoked[t] <= 1

\* C5: when routing failed, or resolved to a kind other than generate and
\* analyze, check_tools and call_tool are never entered and no tool is called.
C5_NoToolLoopForOtherKinds ==
    (runs["route_action"] >= 1
        /\ (state.error = RoutingErrorMsg
            \/ state.action \notin {GENERATE_PLAN, ANALYZE_RECORD}))
    => /\ runs["check_tools"] = 0
       /\ runs["call_tool"] = 0
       /\ \A t \in ToolNames : invoked[t] = 0

\* a modify request answered without the tool loop
C5_Witness ==
    /\ pc = "returned"
    /\ state.action = MODIFY_PLAN
    /\ handlerRuns = 1
    /\ runs["check_tools"] = 0

\* C6: route_action keeps a registered kind whatever the payload; for an
\* unrecognized kind it infers analyze from record data, else modify from
\* message and plan data, else generate from a profile, else it fails with
\* the routing error; after a routing error no handler is executed.
C6_Routing ==
    /\ [][pc = "route_action" =>
            IF state.action \in RegisteredActions
            THEN state'.action = state.action /\ state'.error = None
            ELSE IF state.record_data \notin {None, "{}"}
            THEN state'.action = ANALYZE_RECORD /\ state'.error = None
            ELSE IF state.user_message # "" /\ TruthyPlan(state.plan_data)
            THEN state'.action = MODIFY_PLAN /\ state'.error = None
            ELSE IF state.user_profile # "{}"
            THEN state'.action = GENERATE_PLAN /\ state'.error = None
            ELSE state'.error = RoutingErrorMsg /\ state'.action = state.action]_vars
    /\ [](state.error = RoutingErrorMsg => handlerRuns = 0 /\ llmCalls = 0)

\* an unrecognized kind with message, plan data and profile is inferred as modify
C6_Witness ==
    /\ req.action = UPDATE_FROM_RECORDS
    /\ state.action = MODIFY_PLAN
    /\ Truthy(state.user_profile)
    /\ handlerRuns = 1

\* C7: a request that ends with an error other than a validation or routing
\* error returns success = false and a non-empty message.
C7_ErrorResponseHasMessage ==
    (pc = "returned"
        /\ response.error # None
        /\ response.error \notin ValidationErrors \cup {RoutingErrorMsg})
    => response.success = FALSE /\ response.message # ""

\* C8: a request missing the fields its action kind requires is rejected
\* before the graph starts: no node ever runs for it.
C8_RejectedBeforeStart ==
    MissingRequired(req) => \A n \in Nodes : runs[n] = 0

\* C9: a request whose kind-specific required payload is empty ends with a
\* validation error, and the generation backend is never called for it.
C9_EmptyPayloadIsValidationError ==
    MissingRequired(req) =>
        /\ llmCalls = 0
        /\ pc = "returned" => response.error \in ValidationErrors

\* C10: a memory failure in retrieve_memory or update_memory never sets
\* state.error and never changes what is returned: after a failed retrieval
\* the failed tier contributes nothing (nothing at all when the whole
\* retrieval failed) and the request moves on to routing; update_memory
\* leaves error, response_message, updated_plan and analysis_result as
\* execute_action produced them.
C10_MemoryFailureIsSwallowed ==
    [][/\ pc = "retrieve_memory" =>
            /\ state'.error = None
            /\ pc' = "route_action"
            /\ memFail'.retrieve =>
                  /\ state'.long_term_context = ""
                  /\ state'.working_context = "{}"
                  /\ state'.user_preferences = "{}"
            /\ memFail'.long_term => state'.long_term_context \in {"", "pref"}
            /\ memFail'.preferences =>
                  /\ state'.long_term_context \in {"", "lt"}
                  /\ state'.user_preferences = "{}"
       /\ pc = "update_memory" =>
            /\ state'.error = state.error
            /\ state'.response_message = state.response_message
            /\ state'.updated_plan = state.updated_plan
            /\ state'.analysis_result = state.analysis_result
            /\ pc' = "END"
       /\ pc = "END" =>
            /\ response'.success = ~Truthy(state.error)
            /\ response'.message = state.response_message]_vars

\* retrieval and persistence both failed and the request still succeeded
C10_Witness ==
    /\ pc = "returned"
    /\ memFail.retrieve
    /\ memFail.update
    /\ response.success = TRUE
    /\ response.updated_weeks = "W1"

\* a non-streaming request of the given kinds that returned without error
\* and whose memory update met no failing store
CompletedOK(kinds) ==
    /\ entry = "execute"
    /\ pc = "returned"
    /\ state.error = None
    /\ state.action \in kinds
    /\ ~memFail.update

\* C11: after a generate or modify request completed without error and with
\* a plan_id, update_memory has written the conversation turn to the
\* long-term store and, when a plan was produced or updated, the plan
\* snapshot; without a plan_id it has written nothing.
C11_PlanEntriesPersisted ==
    CompletedOK({GENERATE_PLAN, MODIFY_PLAN}) =>
        IF Truthy(state.plan_id)
        THEN /\ "conversation" \in ltm
             /\ Truthy(state.updated_plan) => "plan" \in ltm
        ELSE ltm = {} /\ wm = 0

\* C12: after an analyze request completed without error and with non-empty
\* analysis text, update_memory has written the analysis to the long-term
\* store.
C12_AnalysisPersisted ==
    (CompletedOK({ANALYZE_RECORD}) /\ Truthy(state.analysis_result))
    => "analysis" \in ltm

\* C12 (amended): after an analyze request carrying a plan_id completed
\* without error and with non-empty analysis text, and unless the store's
\* write raised, update_memory has written the analysis to the long-term
\* store; without a plan_id it has written nothing.
C12_AnalysisPersistedForPlan ==
    (CompletedOK({ANALYZE_RECORD}) /\ Truthy(state.analysis_result)) =>
        IF Truthy(state.plan_id) THEN ltm = {"analysis"} ELSE ltm = {}

\* an analysis stored for a plan and returned to the caller
C12_Witness ==
    /\ CompletedOK({ANALYZE_RECORD})
    /\ state.plan_id = "p1"
    /\ response.analysis = "text"
    /\ ltm = {"analysis"}

\* C13: a streaming request runs retrieve_memory and route_action once each
\* and at most one handler; it never runs check_tools, call_tool,
\* execute_action or update_memory, invokes no tool, and adds nothing to
\* the working store or the long-term store.
C13_StreamBypassesLoopAndMemory ==
    entry = "execute_stream" =>
        /\ runs["check_tools"] = 0
        /\ runs["call_tool"] = 0
        /\ runs["execute_action"] = 0
        /\ runs["update_memory"] = 0
        /\ runs["retrieve_memory"] <= 1
        /\ runs["route_action"] <= 1
        /\ handlerRuns <= 1
        /\ \A t \in ToolNames : invoked[t] = 0
        /\ ltm = {}
        /\ wm = 0

\* a modify request with a plan_id streamed to its end
C13_Witness ==
    /\ entry = "execute_stream"
    /\ pc = "stream_returned"
    /\ state.action = MODIFY_PLAN
    /\ state.plan_id = "p1"
    /\ handlerRuns = 1
    /\ streamed = <<"text">>

\* the labels of a day list
Labels(days) == {days[k].day : k \in DOMAIN days}

\* the first and the last entry of a day list that carry the label
FirstIndex(days, label) ==
    CHOOSE k \in DOMAIN days :
        days[k].day = label /\ \A j \in DOMAIN days : days[j].day = label => k <= j

LastWith(days, label) ==
    days[CHOOSE k \in DOMAIN days :
            days[k].day = label /\ \A j \in DOMAIN days : days[j].day = label => j <= k]

\* new is old with the modified days merged in: a modified day stands where
\* the existing day of its label stood, a day of a new label is appended,
\* every other day is where and what it was
DaysMerged(old, modified, new) ==
    /\ Len(new) = Len(old) + Cardinality(Labels(modified) \ Labels(old))
    /\ \A k \in 1..Len(old) :
          new[k] = IF old[k].day \in Labels(modified) /\ k = FirstIndex(old, old[k].day)
                   THEN LastWith(modified, old[k].day)
                   ELSE old[k]
    /\ \A k \in (Len(old) + 1)..Len(new) :
          /\ new[k].day \in Labels(modified) \ Labels(old)
          /\ new[k] = LastWith(modified, new[k].day)
          /\ \A j \in (Len(old) + 1)..(k - 1) :
                FirstIndex(modified, new[j].day) < FirstIndex(modified, new[k].day)

\* the loop of _merge_weeks is about to process the modified week m_week
AtModifiedWeek == mpc = "loop" /\ m_index <= Len(heap.lists[modified_weeks])

\* C14: merging a modified week whose index i = weekNumber - 1 lies inside
\* the week list changes only week i: its summary is replaced when the
\* modification has one, each modified day replaces the day of the same label
\* or is appended, every other day of week i and every other week stay as
\* they were.
C14_MergeInsideChangesOneWeek ==
    [][AtModifiedWeek =>
          LET m == heap.lists[modified_weeks][m_index]
              m_week == WeekValue(heap, m)
              i == m_week.weekNumber
              old == PlanValue(heap, result)
              new == PlanValue(heap', result)
          IN (m_week.hasWeekNumber /\ 0 <= i - 1 /\ i - 1 < Len(old)) =>
                /\ Len(new) = Len(old)
                /\ \A j \in 1..Len(old) : j # i => new[j] = old[j]
                /\ new[i].hasWeekNumber = old[i].hasWeekNumber
                /\ new[i].weekNumber = old[i].weekNumber
                /\ IF m_week.hasSummary
                   THEN new[i].hasSummary /\ new[i].summary = m_week.summary
                   ELSE /\ new[i].hasSummary = old[i].hasSummary
                        /\ new[i].summary = old[i].summary
                /\ IF m_week.hasDays
                   THEN new[i].hasDays /\ DaysMerged(old[i].days, m_week.days, new[i].days)
                   ELSE /\ new[i].hasDays = old[i].hasDays
                        /\ new[i].days = old[i].days]_vars

\* a "Wed" change of week 2 merged into a two-week plan
C14_Witness ==
    /\ mpc = "done"
    /\ Len(heap.lists[modified_weeks]) = 1
    /\ Len(heap.lists[current_weeks]) = 2
    /\ PlanValue(heap, result)[1] = PlanValue(heap0, current_weeks)[1]
    /\ PlanValue(heap0, current_weeks)[2].days = <<Day("Mon", "a"), Day("Wed", "a")>>
    /\ PlanValue(heap, result)[2].days = <<Day("Mon", "a"), Day("Wed", "b")>>
    /\ PlanValue(heap, result)[2].summary = "s1"

\* the call has returned and its list of modified weeks held the one week m
SingleModification(m) ==
    /\ mpc = "done"
    /\ heap.lists[modified_weeks] = <<m>>
    /\ heap.weeks[m].hasWeekNumber

\* C15: with N existing weeks and a single modified week, weekNumber = N + 1
\* yields N + 1 weeks of which the first N are the existing ones and the last
\* equals the modification; weekNumber = N + 2 yields the original plan.
C15_AppendOrDrop ==
    \A m \in 1..Len(heap.weeks) :
        SingleModification(m) =>
            LET N == Len(heap0.lists[current_weeks])
                original == PlanValue(heap0, current_weeks)
                merged == PlanValue(heap, result)
            IN /\ heap.weeks[m].weekNumber = N + 1 =>
                     /\ Len(merged) = N + 1
                     /\ merged[N + 1] = WeekValue(heap0, m)
                     /\ \A j \in 1..N : merged[j] = original[j]
               /\ heap.weeks[m].weekNumber = N + 2 => merged = original

\* week 3 appended to a two-week plan
C15_Witness ==
    /\ mpc = "done"
    /\ Len(heap.lists[modified_weeks]) = 1
    /\ Len(heap0.lists[current_weeks]) = 2
    /\ Len(heap.lists[result]) = 3
    /\ heap.lists[result][3] = heap.lists[modified_weeks][1]

\* the modified week at position k of the list is one of the weeks of the
\* list built by the merge
InResult(k) ==
    \E j \in 1..Len(heap.lists[result]) :
        heap.lists[result][j] = heap.lists[modified_weeks][k]

\* C16: a modified week whose index weekNumber - 1 is greater than the number
\* of weeks of the existing document does not appear in the merged result,
\* whatever else the list of modified weeks holds.
C16_DroppedPastExisting ==
    mpc = "done" =>
        \A k \in 1..Len(heap.lists[modified_weeks]) :
            LET m_week == heap.weeks[heap.lists[modified_weeks][k]]
            IN (m_week.hasWeekNumber
                   /\ m_week.weekNumber - 1 > Len(heap0.lists[current_weeks]))
               => ~InResult(k)

\* C16 (amended): a modified week whose index is greater than the number of
\* weeks of the list built so far (the existing weeks and those appended by
\* earlier entries of the same list) is dropped: its step leaves the list and
\* every object as they were, and a week whose index is greater than the
\* length of the built list is not in it.
C16_DroppedPastBuilt ==
    /\ [][AtModifiedWeek =>
            LET m_week == heap.weeks[heap.lists[modified_weeks][m_index]]
            IN (m_week.hasWeekNumber
                   /\ m_week.weekNumber - 1 > Len(heap.lists[result]))
               => heap' = heap /\ result' = result /\ m_index' = m_index + 1]_vars
    /\ [](mpc \in {"loop", "done"} =>
            \A k \in 1..Len(heap.lists[modified_weeks]) :
                LET m_week == heap.weeks[heap.lists[modified_weeks][k]]
                IN (k < m_index /\ m_week.hasWeekNumber
                       /\ m_week.weekNumber - 1 > Len(heap.lists[result]))
                   => ~InResult(k))

\* week 4 dropped from a one-week plan after week 2 was appended
C16_Witness ==
    /\ mpc = "done"
    /\ Len(heap0.lists[current_weeks]) = 1
    /\ Len(heap.lists[modified_weeks]) = 2
    /\ heap.weeks[heap.lists[modified_weeks][1]].weekNumber = 2
    /\ heap.weeks[heap.lists[modified_weeks][2]].weekNumber = 4
    /\ InResult(1)
    /\ ~InResult(2)
    /\ Len(heap.lists[result]) = 2

C18_InputNotMutated ==
    /\ \A a \in 1..Len(heap0.lists) : heap.lists[a] = heap0.lists[a]
    /\ \A a \in 1..Len(heap0.weeks) : heap.weeks[a] = heap0.weeks[a]
    /\ \A a \in 1..Len(heap0.days) : heap.days[a] = heap0.days[a]
    /\ mpc \in {"loop", "done"} => result > Len(heap0.lists)

\* a merge that replaced a day of an existing week and returned
C18_Witness ==
    /\ mpc = "done"
    /\ Len(heap0.lists[current_weeks]) = 2
    /\ Len(heap.days) > Len(heap0.days)
    /\ PlanValue(heap, result) # PlanValue(heap0, current_weeks)
    /\ PlanValue(heap, result)[1].days = <<Day("Mon", "a"), Day("Wed", "b")>>

\* the step is the return of a call of the operation
Returns(op) == ret'.n # ret.n /\ ret'.op = op

\* C19: for a stored session idle for longer than the TTL, get returns
\* absent, and the cleanup_expired call that follows that get removes the
\* session's entry, which lowers the number of entries by one for it.
C19_GetThenCleanup ==
    [][/\ (Returns("get") /\ StoredExpired(store, ret'.sid, now)) => ret'.value = 0
       /\ (Returns("cleanup_expired") /\ ret.op = "get" /\ ret.evicted # {}) =>
             \A sid \in ret.evicted :
                 /\ sid \in DOMAIN store.sessions
                 /\ sid \notin DOMAIN store'.sessions
                 /\ sid \in ret'.evicted]_vars

\* C19 (amended): for a stored session idle for longer than the TTL, get
\* returns absent and deletes the entry itself; a cleanup_expired call that
\* finds the entry still stored deletes it, each expired entry lowering the
\* number of entries by exactly one and counting one in the number returned;
\* unexpired entries stay.
C19_ExpiredEvictedOnce ==
    [][/\ (Returns("get") /\ StoredExpired(store, ret'.sid, now)) =>
             /\ ret'.value = 0
             /\ store'.sessions = DictDel(store.sessions, ret'.sid)
             /\ Cardinality(DOMAIN store'.sessions)
                    = Cardinality(DOMAIN store.sessions) - 1
       /\ Returns("cleanup_expired") =>
             LET expired == ExpiredAmong(DOMAIN store.sessions)
             IN /\ DOMAIN store'.sessions = (DOMAIN store.sessions) \ expired
                /\ Cardinality(DOMAIN store'.sessions)
                       = Cardinality(DOMAIN store.sessions) - Cardinality(expired)
                /\ ret'.value = Cardinality(expired)
                /\ ret'.evicted = expired]_vars

\* cleanup_expired has removed the one expired session and left a live one
C19_Witness ==
    /\ ret.op = "cleanup_expired"
    /\ ret.value = 1
    /\ ret.evicted = {"s1"}
    /\ DOMAIN store.sessions = {"s2"}
    /\ now > TTL_MINUTES

\* how often the content occurs in the history
Occurrences(history, content) ==
    Cardinality({i \in DOMAIN history : history[i].content = content})

\* C20: for a session id that was not cleared, evicted or overwritten, every
\* message whose add_message has returned is in the stored history exactly
\* once, and every scratch key that was written holds a value one of its
\* writers wrote, whatever the interleaving of the writers.
C20_NoLostUpdate ==
    \A sid \in SessionIds \ disturbed :
        /\ \A a \in appended :
              a.sid = sid =>
                  /\ sid \in DOMAIN store.sessions
                  /\ Occurrences(store.objs[store.sessions[sid]].conversation_history,
                                 a.content) = 1
        /\ \A w \in wrote :
              w.sid = sid =>
                  /\ sid \in DOMAIN store.sessions
                  /\ w.key \in DOMAIN store.objs[store.sessions[sid]].context
                  /\ \E v \in wrote :
                        /\ v.sid = sid
                        /\ v.key = w.key
                        /\ store.objs[store.sessions[sid]].context[w.key] = v.value

\* two overlapping add_message calls on one session: the call that began
\* later appended first, and both messages are there
C20_Witness ==
    /\ "s1" \notin disturbed
    /\ "s1" \in DOMAIN store.sessions
    /\ \A c \in Callers : callers[c].pc = "idle"
    /\ LET history == store.objs[store.sessions["s1"]].conversation_history
       IN /\ Len(history) = 2
          /\ history[1].content > history[2].content
          /\ \A i \in 1..2 : [sid |-> "s1", content |-> history[i].content] \in appended

\* the step is caller c passing from the stage at to the stage to of a
\* two-step operation
Passes(c, at, to) == callers[c].pc = at /\ callers'[c].pc = to

\* get_or_create on the stored state S returned the address a: the live
\* session stored under the id, else a fresh state installed under it
GetOrCreateContract(S, session_id, a) ==
    IF session_id \in DOMAIN S.sessions /\ ~StoredExpired(S, session_id, now)
    THEN /\ a = S.sessions[session_id]
         /\ store'.sessions = S.sessions
         /\ store'.objs[a] = [S.objs[a] EXCEPT !.last_accessed = now]
    ELSE /\ a \notin DOMAIN S.objs
         /\ store'.sessions = DictSet(S.sessions, session_id, a)
         /\ store'.objs[a].conversation_history = <<>>
         /\ store'.objs[a].context = EmptyDict
         /\ store'.objs[a].last_accessed = now

\* C21: get_or_create returns the stored session when it is present and not
\* expired, refreshed and otherwise as it was, and else installs and returns
\* a fresh state with empty history and empty scratch map; get, get_or_create,
\* update, add_message and set_context leave the last-access time of the live
\* session they reach at the current time.
C21_GetOrCreateAndTouch ==
    [][/\ Returns("get_or_create") => GetOrCreateContract(store, ret'.sid, ret'.value)
       /\ \A c \in Callers :
             /\ (Passes(c, "idle", "add_message") \/ Passes(c, "idle", "set_context")) =>
                   GetOrCreateContract(store, callers'[c].sid, callers'[c].ref)
             /\ (Passes(c, "add_message", "idle") \/ Passes(c, "set_context", "idle")) =>
                   LET a == callers[c].ref
                       sid == callers[c].sid
                   IN (sid \in DOMAIN store.sessions /\ store.sessions[sid] = a) =>
                         /\ store'.sessions = store.sessions
                         /\ store'.objs[a].last_accessed = now
       /\ (Returns("get") /\ ret'.sid \in DOMAIN store.sessions
              /\ ~StoredExpired(store, ret'.sid, now)) =>
             /\ ret'.value = store.sessions[ret'.sid]
             /\ store'.sessions = store.sessions
             /\ store'.objs[ret'.value] =
                    [store.objs[ret'.value] EXCEPT !.last_accessed = now]
       /\ (Returns("update") /\ ret'.sid \in DOMAIN store.sessions) =>
             /\ store'.sessions = store.sessions
             /\ store'.objs[store.sessions[ret'.sid]].last_accessed = now]_vars

\* get_or_create has handed out, one TTL after its creation, the session
\* that holds a message, with its idle timer restarted
C21_Witness ==
    /\ ret.op = "get_or_create"
    /\ now = TTL_MINUTES
    /\ ret.sid \in DOMAIN store.sessions
    /\ store.sessions[ret.sid] = ret.value
    /\ Len(store.objs[ret.value].conversation_history) = 1
    /\ store.objs[ret.value].last_accessed = now

\* C22: cleanup_expired removes all and only the sessions idle for longer
\* than the TTL and returns how many it removed; every other session stays
\* stored as the same state, with its history, scratch map and last-access
\* time as they were.
C22_CleanupRemovesExactlyExpired ==
    [][Returns("cleanup_expired") =>
          LET expired == {sid \in DOMAIN store.sessions :
                             now - store.objs[store.sessions[sid]].last_accessed
                                 > TTL_MINUTES}
          IN /\ DOMAIN store'.sessions = (DOMAIN store.sessions) \ expired
             /\ ret'.value = Cardinality(expired)
             /\ \A sid \in DOMAIN store'.sessions :
                   /\ store'.sessions[sid] = store.sessions[sid]
                   /\ store'.objs[store'.sessions[sid]]
                          = store.objs[store.sessions[sid]]]_vars

\* a sweep a minute past the TTL removed the session last used at the start
\* and kept the one that received a message at the TTL
C22_Witness ==
    /\ ret.op = "cleanup_expired"
    /\ ret.value = 1
    /\ now = TTL_MINUTES + 1
    /\ Cardinality(DOMAIN store.sessions) = 1
    /\ \A sid \in DOMAIN store.sessions :
          /\ Len(store.objs[store.sessions[sid]].conversation_history) = 1
          /\ store.objs[store.sessions[sid]].last_accessed = TTL_MINUTES

\* C23: every stored session's conversation history stays within a fixed
\* maximum, whatever number of add_message calls the session has received:
\* its length stays below the number of calls a behaviour may make.
C23_HistoryBounded ==
    \A sid \in DOMAIN store.sessions :
        Len(store.objs[store.sessions[sid]].conversation_history) < MaxCalls

\* the step is a get returning
GetReturns == pret'.n # pret.n

\* at most one row per pair, and exactly one, holding the value last set,
\* for every pair that has been set
OneRowPerPair ==
    \A pair \in PlanIds \X PreferenceKeys :
        LET rows == Matching(prefs, pair[1], pair[2])
        IN /\ Cardinality(rows) <= 1
           /\ lastSet[pair] # NoValue =>
                 /\ Cardinality(rows) = 1
                 /\ \A r \in rows : r.preference_value = lastSet[pair]

StoredList(plan_id) ==
    LET got == persistent_get(prefs, plan_id, ACCUMULATED_INSIGHTS, FALSE)
    IN IF got.isList THEN got.items ELSE <<>>

\* C25: after n add_insight calls for one plan, none overlapping another,
\* the list stored under the reserved key is the most recent min(n, 50)
\* insights in insertion order: never longer than the cap, the oldest
\* dropped first.
C25_InsightsCapped ==
    \A plan_id \in PlanIds \ overlapped :
        /\ Len(StoredList(plan_id)) <= INSIGHT_CAP
        /\ StoredList(plan_id) = LastN(added[plan_id], INSIGHT_CAP)

\* the plan-category records of the plan
PlanRecords(T, plan_id) == {r \in T : r.plan_id = plan_id /\ r.content_type = PLAN}

\* the records store_plan_context call n for the plan creates when given
\* that many weeks
CreatedBy(plan_id, n, weeks) ==
    {ContextEmbedding(plan_id, PLAN, "plan_summary", 0, n)}
        \cup {ContextEmbedding(plan_id, PLAN, "week_detail", w, n) : w \in 1..weeks}

\* C26: once store_plan_context has been called for a plan, the only
\* plan-category records of the plan are records that call created, all of
\* them once it has returned, and none of an earlier call; no step of the
\* call changes an analysis or conversation record of the plan or any record
\* of another plan.
C26_PlanRecordsSuperseded ==
    /\ [](\A plan_id \in PlanIds :
            /\ PlanRecords(embeddings, plan_id)
                   \subseteq CreatedBy(plan_id, lastPlan[plan_id].n,
                                       lastPlan[plan_id].weeks)
            /\ lastPlan[plan_id].returned =>
                   PlanRecords(embeddings, plan_id)
                       = CreatedBy(plan_id, lastPlan[plan_id].n,
                                   lastPlan[plan_id].weeks))
    /\ [][storing' # storing =>
             \E plan_id \in {storing.plan_id, storing'.plan_id} \cap PlanIds :
                 embeddings' \ PlanRecords(embeddings', plan_id)
                     = embeddings \ PlanRecords(embeddings, plan_id)]_vars

\* the plan was stored with two weeks, an analysis was stored after it, and
\* a second store_plan_context, given no weeks, has deleted the three plan
\* records and returned: its summary is the plan's only plan record
C26_Witness ==
    \E plan_id \in PlanIds :
        /\ lastPlan[plan_id].returned
        /\ lastPlan[plan_id].deleted = 3
        /\ storing = NotStoring
        /\ PlanRecords(embeddings, plan_id)
               = {ContextEmbedding(plan_id, PLAN, "plan_summary", 0, lastPlan[plan_id].n)}
        /\ \E r \in embeddings : r.plan_id = plan_id /\ r.content_type = ANALYSIS
                                    /\ r.by < lastPlan[plan_id].n

\* q starts with p
IsPrefix(p, q) == Len(p) <= Len(q) /\ SubSeq(q, 1, Len(p)) = p

\* the node about to run makes the same of the state with the trace that is
\* attached and with none, whatever its backends answer
SameWithoutTrace ==
    /\ pc = "retrieve_memory" =>
          \A lt \in LongTermOutcomes(state), pref \in PreferenceOutcomes(state),
             wk \in {"{}", "session"}, raised \in BOOLEAN :
              /\ retrieve_memory_node(state, trace, lt, pref, wk, raised).out
                     = retrieve_memory_node(state, NoTrace, lt, pref, wk, raised).out
              /\ retrieve_memory_node(state, NoTrace, lt, pref, wk, raised).trace = NoTrace
    /\ pc = "route_action" =>
          /\ route_action_node(state, trace).out = route_action_node(state, NoTrace).out
          /\ route_action_node(state, NoTrace).trace = NoTrace
    /\ pc = "check_tools" =>
          \A raised \in BOOLEAN :
              /\ check_tools_node(state, trace, declared, raised).out
                     = check_tools_node(state, NoTrace, declared, raised).out
              /\ check_tools_node(state, NoTrace, declared, raised).trace = NoTrace
    /\ pc = "call_tool" =>
          \A outcome \in ToolOutcomes(Head(state.pending_tools)) :
              /\ call_tool_node(state, trace, outcome).out
                     = call_tool_node(state, NoTrace, outcome).out
              /\ call_tool_node(state, NoTrace, outcome).trace = NoTrace
    /\ pc = "execute_action" =>
          \A o1 \in FirstOutcomes(state) : \A o2 \in SecondOutcomes(state, o1) :
              /\ execute_action_node(state, trace, o1, o2).out
                     = execute_action_node(state, NoTrace, o1, o2).out
              /\ execute_action_node(state, NoTrace, o1, o2).trace = NoTrace
    /\ pc = "update_memory" =>
          \A convFail \in BOOLEAN, planFail \in BOOLEAN, anaFail \in BOOLEAN :
              /\ update_memory_node(state, trace, convFail, planFail, anaFail).out
                     = update_memory_node(state, NoTrace, convFail, planFail, anaFail).out
              /\ update_memory_node(state, NoTrace, convFail, planFail, anaFail).trace
                     = NoTrace

FailedCall(o1, o2) == IF o1 = "raise" THEN 1 ELSE IF o2 = "raise" THEN 2 ELSE 0

\* C28: no generation call is retried: a request issues all its generation
\* calls in one run of its handler, at most two for generate (outline, then
\* first-cycle detail) and at most one for modify and analyze, and a handler
\* whose generation call failed issued no call after the failed one.
C28_NoRetry ==
    /\ [](/\ llmCalls <= 2
          /\ llmCalls = 2 => state.action = GENERATE_PLAN
          /\ pc = "execute_action" =>
                \A o1 \in FirstOutcomes(state) : \A o2 \in SecondOutcomes(state, o1) :
                    FailedCall(o1, o2) > 0 =>
                        execute_action_node(state, trace, o1, o2).out.calls
                            <= FailedCall(o1, o2))
    /\ [][llmCalls' # llmCalls =>
              /\ llmCalls = 0
              /\ pc \in {"execute_action", "stream_handler"}
              /\ handlerRuns = 0 /\ handlerRuns' = 1]_vars

\* a generate request whose outline call failed has returned after that one
\* call, with the failure reported
C28_Witness ==
    /\ pc = "returned"
    /\ state.action = GENERATE_PLAN
    /\ state.error = GenerateFailedMsg
    /\ llmCalls = 1
    /\ ~response.success

\* the outcomes of a modify call whose text holds a plan-update block with a
\* malformed payload
MalformedPayloads == {"badupdate", "illtyped"}

\* C29: a modify request whose generated text holds a plan-update block with
\* a malformed payload leaves the handler with the generated text as the
\* response message, no updated plan and no error; the request then returns
\* as a success carrying that text and no update, and the stored plan is
\* not replaced.
C29_MalformedUpdateKeepsText ==
    /\ (pc = "execute_action" /\ ~Truthy(state.error) /\ route(state) = MODIFY_PLAN
           /\ Truthy(state.user_message)) =>
          \A o \in MalformedPayloads :
              LET out == execute_action_node(state, trace, o, None).out.state
              IN /\ out.response_message = "text_with_block"
                 /\ out.updated_plan = None
                 /\ ~Truthy(out.error)
    /\ (pc = "returned" /\ state.response_message = "text_with_block") =>
          /\ response.success
          /\ response.message = "text_with_block"
          /\ response.updated_weeks = None
          /\ "plan" \notin ltm

\* a modify request met a payload that is JSON but not a list of weeks, and
\* has returned as failed with the fallback message
C29_IllTypedReportedFailed ==
    /\ pc = "returned"
    /\ state.action = MODIFY_PLAN
    /\ state.error = PayloadTypeMsg
    /\ response.message = ModifyFallbackMsg
    /\ ~response.success

\* the edges of the compiled graph, with the call of execute around it
GraphEdges ==
    {<<"entry", "retrieve_memory">>, <<"retrieve_memory", "route_action">>,
     <<"route_action", "check_tools">>, <<"route_action", "execute_action">>,
     <<"check_tools", "call_tool">>, <<"check_tools", "execute_action">>,
     <<"call_tool", "check_tools">>, <<"execute_action", "update_memory">>,
     <<"update_memory", "END">>, <<"END", "returned">>}

\* how often the four single nodes have run
SingleRuns == <<runs["retrieve_memory"], runs["route_action"],
                runs["execute_action"], runs["update_memory"]>>

\* what has run when the request stands before each node
RunsInOrder ==
    /\ pc \in {"entry", "retrieve_memory"} => runs = [n \in Nodes |-> 0]
    /\ pc = "route_action" =>
          /\ SingleRuns = <<1, 0, 0, 0>>
          /\ runs["check_tools"] = 0 /\ runs["call_tool"] = 0
    /\ pc = "check_tools" =>
          /\ SingleRuns = <<1, 1, 0, 0>>
          /\ runs["check_tools"] = runs["call_tool"]
    /\ pc = "call_tool" =>
          /\ SingleRuns = <<1, 1, 0, 0>>
          /\ runs["check_tools"] = Sat(runs["call_tool"])
    /\ pc = "execute_action" =>
          /\ SingleRuns = <<1, 1, 0, 0>>
          /\ \/ runs["check_tools"] = 0 /\ runs["call_tool"] = 0
             \/ runs["check_tools"] = Sat(runs["call_tool"])
    /\ pc = "update_memory" => SingleRuns = <<1, 1, 1, 0>>
    /\ pc \in {"END", "returned"} => SingleRuns = <<1, 1, 1, 1>>

\* no node runs out of the order of the graph, more than once where the
\* graph has no loop, or after the request has returned
NodesInOrder ==
    /\ [](entry = "execute" => RunsInOrder)
    /\ [][entry = "execute" =>
              /\ <<pc, pc'>> \in GraphEdges
              /\ pc = "END" => runs' = runs]_vars
    /\ [](pc = "returned" => ~ENABLED Next)

\* the request lifecycle in which a request that can take a step takes one
SpecLive == InitTools /\ [][Next]_vars /\ WF_vars(Next)

\* C30: every request to execute enters at retrieve_memory and runs
\* route_action once, then any number of check_tools/call_tool rounds (each
\* call_tool followed by check_tools), then execute_action once, then
\* update_memory once, and is then done: no node runs out of this order or
\* after the end, and every request gets to the end.
C30_RunsInOrderToDone ==
    /\ NodesInOrder
    /\ (entry = "execute") ~> (pc = "returned" /\ SingleRuns = <<1, 1, 1, 1>>)

\* C31: the keys of tool_results are the names of the tools that call_tool
\* invoked and that returned: every key is the name of an invoked tool, a
\* tool that returned has its key from then on, and no step of the request,
\* execute_action and update_memory included, removes an entry, replaces
\* its value or adds another key.
C31_ToolResultsAccumulate ==
    /\ []((entry = "execute" /\ pc # "entry") =>
              DOMAIN state.tool_results \subseteq {t \in RegisteredTools : invoked[t] > 0})
    /\ [][(entry = "execute" /\ pc # "entry") =>
              /\ \A k \in DOMAIN state.tool_results :
                    /\ k \in DOMAIN state'.tool_results
                    /\ state'.tool_results[k] = state.tool_results[k]
              /\ (pc = "call_tool" /\ lastCall'.outcome \in {"data", None}) =>
                    lastCall'.name \in DOMAIN state'.tool_results]_vars

\* C32: the initial state built from a request carries the request's fields:
\* action, plan_id and record_data as they are, plan_data and user_message
\* when given, and user_profile whenever the request gives one, with or
\* without plan data.
C32_InitialStateCarriesRequest ==
    [][(pc = "entry" \/ pc = "stream_entry") =>
          /\ state'.action = req.action
          /\ state'.plan_id = req.plan_id
          /\ state'.record_data = req.record_data
          /\ (TruthyPlan(req.plan_data) => state'.plan_data = req.plan_data)
          /\ (Truthy(req.user_message) => state'.user_message = req.user_message)
          /\ (Truthy(req.user_profile) => state'.user_profile = req.user_profile)]_vars

\* the queries and session ids get_context is asked with
Queries(s) == {"", QueryOf(s)}
SessionArgs == {"", SessionOf}

\* C33: get_context searches the long-term tier only with a plan id and a
\* non-empty query; a failed search leaves the long-term text empty while
\* the working state is still read and the preference map still fetched and
\* returned; a failed preference fetch leaves the long-term text as the
\* search returned it.
C33_TiersFailIndependently ==
    pc = "retrieve_memory" =>
        \A query \in Queries(state), session_id \in SessionArgs,
           lt \in {"text", "fail"}, pref \in {"some", "fail"}, wk \in {"{}", "session"} :
            LET c == get_context(state.plan_id, query, session_id, lt, pref, wk)
                ok == get_context(state.plan_id, query, session_id, "text", "some", wk)
            IN /\ c.searched <=> (Truthy(state.plan_id) /\ query # "")
               /\ lt = "fail" =>
                     /\ c.long_term = ""
                     /\ c.read_working = ok.read_working
                     /\ c.working = ok.working
                     /\ c.fetched = ok.fetched
                     /\ pref = "some" => c.preferences = ok.preferences
               /\ pref = "fail" =>
                     /\ c.preferences = "{}"
                     /\ lt = "text" => c.long_term = ok.long_term

\* the long-term search of a request failed and the node still holds the
\* fetched preferences, in the state and in the prompt text
C33_Witness ==
    /\ pc = "route_action"
    /\ memFail.long_term
    /\ ~memFail.preferences
    /\ state.user_preferences = "prefs"
    /\ state.long_term_context = "pref"

\* session o2 shows messages or a scratch value that session o held
StillHolds(o, o2) ==
    \/ /\ o.conversation_history # <<>>
       /\ IsPrefix(o.conversation_history, o2.conversation_history)
    \/ \E k \in DOMAIN o.context :
          k \in DOMAIN o2.context /\ o2.context[k] = o.context[k]

\* C34: what a session held when its idle time passed the TTL is never seen
\* again through the store: after any operation, in whatever order they are
\* called, the session current under the id shows none of the messages and
\* scratch values that the session past its TTL held.
C34_ExpiredNeverSeenAgain ==
    [][\A sid \in SessionIds :
          (/\ StoredExpired(store, sid, now)
           /\ sid \in DOMAIN store'.sessions
           /\ ~StoredExpired(store', sid, now'))
              => ~StillHolds(store.objs[store.sessions[sid]],
                             store'.objs[store'.sessions[sid]])]_vars

\* the add_insight calls have all returned
NoAddInsightRunning == \A c \in Callers : pcallers[c].pc = "idle"

\* the insights that add_insight calls wrote for the plan
Written(plan_id) == {added[plan_id][i] : i \in 1..Len(added[plan_id])}

\* the insights stored for the plan
Stored(plan_id) == {StoredList(plan_id)[i] : i \in 1..Len(StoredList(plan_id))}

\* C35: when add_insight calls for one plan run concurrently and every read
\* succeeds, then once they have returned, with the total below the cap,
\* every insight that was written is in the stored list: no call's
\* read-append-write overwrites the insight of another.
C35_ConcurrentInsightsKept ==
    \A plan_id \in PlanIds \ misread :
        (NoAddInsightRunning /\ Len(added[plan_id]) <= INSIGHT_CAP)
            => Written(plan_id) \subseteq Stored(plan_id)

\* C38: add_insight loses stored insights only by dropping the oldest past
\* the cap: for a plan whose add_insight calls did not overlap and met a
\* failing read, the insights written, up to the most recent 50, are all
\* still stored once the calls have returned.
C38_ReadFailureKeepsInsights ==
    \A plan_id \in misread \ overlapped :
        NoAddInsightRunning =>
            LET kept == LastN(added[plan_id], INSIGHT_CAP)
            IN {kept[i] : i \in 1..Len(kept)} \subseteq Stored(plan_id)

\* C36: a modify request to execute leaves the plan data the caller passed
\* in as it was, its weeks included, at every step up to the return, with
\* or without an update; the merged weeks reach the caller in the response.
C36_PlanDataUntouched ==
    /\ [][(entry = "execute" /\ req.action = MODIFY_PLAN) =>
              req'.plan_data = req.plan_data]_vars
    /\ []((pc = "returned" /\ req.action = MODIFY_PLAN /\ Truthy(state.updated_plan)
              /\ ~Truthy(state.error))
             => response.updated_weeks = state.updated_plan)

\* the stepwise call has returned what merge_weeks computes in one go
MergeStepsAgree ==
    mpc = "done" =>
        LET once == merge_weeks(heap0, current_weeks, modified_weeks)
        IN PlanValue(heap, result) = PlanValue(once.heap, once.result)

\* C37: merging the same modified weeks into the merged plan again changes
\* nothing: merge(merge(P, M), M) is deep-equal to merge(P, M), for every
\* existing plan and every list of modified weeks.
C37_MergeIdempotent ==
    mpc = "done" =>
        LET again == merge_weeks(heap, result, modified_weeks)
        IN PlanValue(again.heap, again.result) = PlanValue(heap, result)

\* C39: the merge is monotone: at every point of the loop and at the return
\* the result has at least as many weeks as the existing plan, every
\* existing week is at its position under its number, and its days are
\* still there in their order, followed by any that were added.
C39_MergeMonotone ==
    mpc \in {"loop", "done"} =>
        LET P == PlanValue(heap0, current_weeks)
            R == PlanValue(heap, result)
        IN /\ Len(R) >= Len(P)
           /\ \A i \in 1..Len(P) :
                 /\ R[i].hasWeekNumber = P[i].hasWeekNumber
                 /\ R[i].weekNumber = P[i].weekNumber
                 /\ Len(R[i].days) >= Len(P[i].days)
                 /\ \A j \in 1..Len(P[i].days) : R[i].days[j].day = P[i].days[j].day

\* a merge has returned a plan with a week more than the existing one and
\* with a day more in an existing week
C39_Witness ==
    /\ mpc = "done"
    /\ LET P == PlanValue(heap0, current_weeks)
           R == PlanValue(heap, result)
       IN /\ Len(R) = Len(P) + 1
          /\ \E i \in 1..Len(P) :
                /\ Len(P[i].days) = 2
                /\ Len(R[i].days) = 3

====
